---- MODULE Spec2Model ----
(***************************************************************************)
(* A model of libgwyfile (gwyfile.c): the tree of GwyfileObject and        *)
(* GwyfileItem nodes with owner links and cached sizes, and the GWY        *)
(* serializer and deserializer.                                            *)
(*                                                                         *)
(* Nodes live in two pools, objects and items, indexed by small integers   *)
(* that stand for the pointers of the C code; 0 stands for NULL.  A node   *)
(* is "free" (never allocated), "live", or "dead" (passed to free()).      *)
(* Names, strings and character arrays are sequences of byte values.       *)
(***************************************************************************)
EXTENDS Integers, Sequences, FiniteSets, TLC

(* ---- bounds of the model ---- *)
MaxNodes == 4
MaxArrayLen == 2
(* The longest file that is cut short or read with a small max_size. *)
MaxFileLen == 36
(* How far below and above GWYFILE_MAX_DEPTH the nesting of a file goes. *)
MaxExtraDepth == 1
(* How many passes of the loop of gwyfile_fread_string() a run follows. *)
MaxPasses == 3

(* ---- program constants ---- *)
GWYFILE_ITEM_BOOL == 98
GWYFILE_ITEM_CHAR == 99
GWYFILE_ITEM_INT32 == 105
GWYFILE_ITEM_INT64 == 113
GWYFILE_ITEM_DOUBLE == 100
GWYFILE_ITEM_STRING == 115
GWYFILE_ITEM_OBJECT == 111
GWYFILE_ITEM_CHAR_ARRAY == 67
GWYFILE_ITEM_INT32_ARRAY == 73
GWYFILE_ITEM_INT64_ARRAY == 81
GWYFILE_ITEM_DOUBLE_ARRAY == 68
GWYFILE_ITEM_STRING_ARRAY == 83
GWYFILE_ITEM_OBJECT_ARRAY == 79
GWYFILE_ERROR_DOMAIN_SYSTEM == 0
GWYFILE_ERROR_DOMAIN_DATA == 1
GWYFILE_ERROR_MAGIC == 0
GWYFILE_ERROR_ITEM_TYPE == 1
GWYFILE_ERROR_CONFINEMENT == 2
GWYFILE_ERROR_ARRAY_SIZE == 3
GWYFILE_ERROR_DUPLICATE_NAME == 4
GWYFILE_ERROR_LONG_STRING == 5
GWYFILE_ERROR_OBJECT_SIZE == 6
GWYFILE_ERROR_TOO_DEEP_NESTING == 9
GWYFILE_ERROR_DOMAIN_VALIDITY == 2
GWYFILE_ERROR_DOMAIN_WARNING == 3
GWYFILE_CHECK_FLAG_VALIDITY == 4
GWYFILE_CHECK_FLAG_WARNING == 8
GWYFILE_INVALID_UTF8_NAME == 0
GWYFILE_INVALID_UTF8_TYPE == 1
GWYFILE_INVALID_UTF8_STRING == 2
GWYFILE_INVALID_DOUBLE == 3
GWYFILE_WARNING_TYPE_IDENTIFIER == 0
GWYFILE_WARNING_EMPTY_NAME == 1
GWYFILE_MAX_DEPTH == 200

NULL == 0

(* The arguments the calling program passes in this model. *)
ItemNames == {<<97>>, <<98, 99>>}
ObjNames == {<<84>>}
BoolInputs == {1}
StrInputs == {<<>>, <<104, 105>>}
(* max_size of a caller that sets no limit (SIZE_MAX in the program). *)
Unconstrained == 2147483647
(* What freshly allocated memory may hold. *)
FillBytes == {0, 170}

(* objects, items: the heap.  status: whether the process still runs.      *)
(* stream, pos: the file being read and the number of bytes consumed.      *)
(* frames: the active calls of the reading functions, innermost last.      *)
(* ret: what the reading call has returned.  written: the bytes put out by *)
(* gwyfile_fwrite().  info: what the caller knows of its own arguments.    *)
VARIABLES objects, items, status, stream, pos, frames, ret, written, info

heapVars == <<objects, items, status>>
codecVars == <<stream, pos, frames, ret, written, info>>
vars == <<objects, items, status, stream, pos, frames, ret, written, info>>

(* A slot of the object pool that was never allocated, and one that was freed. *)
FreeObject == [st |-> "free", owner |-> NULL, name |-> <<>>, name_len |-> 0,
               items |-> <<>>, data_size |-> 0]
DeadObject == [FreeObject EXCEPT !.st = "dead"]
FreeItem == [st |-> "free", type |-> 0, array_length |-> 0, name |-> <<>>,
             name_len |-> 0, data_owned |-> FALSE, owner |-> NULL,
             data_size |-> 0, v |-> <<>>, sa |-> <<>>, oa |-> <<>>]
DeadItem == [FreeItem EXCEPT !.st = "dead"]

(* The heap as one value: H.objs, H.its and H.st, the state of the process: *)
(* "run", "abort" (an assertion failed), "ub" (freed memory was used) or    *)
(* "diverged" (a call that never returns).                                  *)
Heap(os, is, s) == [objs |-> os, its |-> is, st |-> s]
Fail(H, how) == [H EXCEPT !.st = how]

LiveObj(H, o) == o \in DOMAIN H.objs /\ H.objs[o].st = "live"
LiveItem(H, i) == i \in DOMAIN H.its /\ H.its[i].st = "live"

(* The longest owner chain or recursion a tree of this pool can need. *)
Fuel == 6 * MaxNodes + 6

FreeObjIds(H) == {o \in DOMAIN H.objs : H.objs[o].st = "free"}
FreeItemIds(H) == {i \in DOMAIN H.its : H.its[i].st = "free"}
Lowest(S) == CHOOSE x \in S : \A y \in S : x <= y

gwyfile_object_size(ob) == ob.name_len + 1 + 4 + ob.data_size

gwyfile_item_size(it) ==
    IF it.type = 0 THEN 0 ELSE 1 + it.name_len + 1 + it.data_size

RECURSIVE gwyfile_object_propagate_size_change(_, _, _, _, _)
RECURSIVE gwyfile_item_propagate_size_change(_, _, _, _, _)

(* gwyfile_object_propagate_size_change() without the call for the owner. *)
gwyfile_object_propagate_size_change_once(H, object, size_change, increase, fuel) ==
    IF H.st # "run" THEN H
    ELSE IF ~LiveObj(H, object) THEN Fail(H, "ub")
    ELSE IF ~increase /\ size_change > H.objs[object].data_size THEN Fail(H, "abort")
    ELSE [H EXCEPT !.objs[object].data_size =
              IF increase THEN @ + size_change ELSE @ - size_change]

gwyfile_object_propagate_size_change(H, object, size_change, increase, fuel) ==
    IF H.st # "run" THEN H
    ELSE IF fuel = 0 THEN Fail(H, "diverged")
    ELSE IF ~LiveObj(H, object) THEN Fail(H, "ub")
    ELSE IF ~increase /\ size_change > H.objs[object].data_size THEN Fail(H, "abort")
    ELSE LET H1 == [H EXCEPT !.objs[object].data_size =
                        IF increase THEN @ + size_change ELSE @ - size_change]
         IN  IF H1.objs[object].owner # NULL
             THEN gwyfile_item_propagate_size_change(H1, H1.objs[object].owner,
                                                     size_change, increase, fuel - 1)
             ELSE H1

gwyfile_item_propagate_size_change(H, item, size_change, increase, fuel) ==
    IF H.st # "run" THEN H
    ELSE IF fuel = 0 THEN Fail(H, "diverged")
    ELSE IF ~LiveItem(H, item) THEN Fail(H, "ub")
    ELSE IF H.its[item].type \notin {GWYFILE_ITEM_OBJECT, GWYFILE_ITEM_OBJECT_ARRAY}
         THEN Fail(H, "abort")
    ELSE IF ~increase /\ size_change > H.its[item].data_size THEN Fail(H, "abort")
    ELSE LET H1 == [H EXCEPT !.its[item].data_size =
                        IF increase THEN @ + size_change ELSE @ - size_change]
         IN  IF H1.its[item].owner # NULL
             THEN gwyfile_object_propagate_size_change(H1, H1.its[item].owner,
                                                       size_change, increase, fuel - 1)
             ELSE H1

gwyfile_item_notify_size_change(H, item, oldsize) ==
    LET owner == H.its[item].owner
        new == H.its[item].data_size
    IN  IF owner = NULL THEN H
        ELSE IF new > oldsize
             THEN gwyfile_object_propagate_size_change(H, owner, new - oldsize, TRUE, Fuel)
             ELSE gwyfile_object_propagate_size_change(H, owner, oldsize - new, FALSE, Fuel)

gwyfile_object_append(H, object, item) ==
    LET H1 == [H EXCEPT !.objs[object].items = Append(@, item),
                        !.its[item].owner = object]
    IN  gwyfile_object_propagate_size_change(H1, object,
                                             gwyfile_item_size(H1.its[item]), TRUE, Fuel)

(* ---- strings ---- *)
RECURSIVE strcmp(_, _)
strcmp(a, b) ==
    IF a = <<>> /\ b = <<>> THEN 0
    ELSE IF a = <<>> THEN -1
    ELSE IF b = <<>> THEN 1
    ELSE IF Head(a) < Head(b) THEN -1
    ELSE IF Head(a) > Head(b) THEN 1
    ELSE strcmp(Tail(a), Tail(b))

gwyfile_strequal(a, b) == strcmp(a, b) = 0

RECURSIVE SumSeq(_)
SumSeq(s) == IF s = <<>> THEN 0 ELSE Head(s) + SumSeq(Tail(s))

(* qsort() with gwyfile_compare_items: the positions of names in the order *)
(* of strcmp.  Equal names keep their relative order here; the callers     *)
(* fail whenever two names are equal.                                      *)
RECURSIVE InsertByName(_, _, _)
InsertByName(perm, x, names) ==
    IF perm = <<>> THEN <<x>>
    ELSE IF strcmp(names[x], names[Head(perm)]) < 0 THEN <<x>> \o perm
    ELSE <<Head(perm)>> \o InsertByName(Tail(perm), x, names)

RECURSIVE SortedPositions(_, _)
SortedPositions(names, k) ==
    IF k = 0 THEN <<>> ELSE InsertByName(SortedPositions(names, k - 1), k, names)

qsort_items(list, names) ==
    LET perm == SortedPositions(names, Len(names))
    IN  [k \in 1..Len(list) |-> list[perm[k]]]

NoAdjacentDuplicate(names) == FALSE

HasAdjacentDuplicate(names) ==
    \E k \in 1..(Len(names) - 1) : gwyfile_strequal(names[k], names[k + 1])

(* Sorts the item list in place and reports a duplicate name: "dup" is the *)
(* non-NULL return value.                                                  *)
gwyfile_object_find_duplicate_item(H, object) ==
    LET list == H.objs[object].items
        n == Len(list)
    IN  IF n < 2 THEN [H |-> H, dup |-> FALSE]
        ELSE IF \E k \in 1..n : ~LiveItem(H, list[k])
             THEN [H |-> Fail(H, "ub"), dup |-> FALSE]
        ELSE LET names == [k \in 1..n |-> H.its[list[k]].name]
                 sorted == qsort_items(list, names)
                 snames == [k \in 1..n |-> H.its[sorted[k]].name]
             IN  [H |-> [H EXCEPT !.objs[object].items = sorted],
                  dup |-> HasAdjacentDuplicate(snames)]

(* ---- destruction ---- *)
RECURSIVE gwyfile_object_free(_, _, _)
RECURSIVE gwyfile_item_free(_, _, _)
RECURSIVE gwyfile_object_remove_last(_, _, _, _)
RECURSIVE FreeItemsLoop(_, _, _)
RECURSIVE FreeElementsLoop(_, _, _, _)

gwyfile_object_remove_last(H, object, freeitem, fuel) ==
    IF H.st # "run" THEN H
    ELSE IF fuel = 0 THEN Fail(H, "diverged")
    ELSE IF H.objs[object].items = <<>> THEN Fail(H, "abort")
    ELSE LET list == H.objs[object].items
             item == list[Len(list)]
         IN  IF ~LiveItem(H, item) THEN Fail(H, "ub")
             ELSE IF H.its[item].owner # object THEN Fail(H, "abort")
             ELSE LET H1 == gwyfile_object_propagate_size_change(
                                H, object, gwyfile_item_size(H.its[item]), FALSE, Fuel)
                      H2 == IF H1.st # "run" THEN H1
                            ELSE [H1 EXCEPT !.its[item].owner = NULL]
                      H3 == IF freeitem THEN gwyfile_item_free(H2, item, fuel - 1) ELSE H2
                  IN  IF H3.st # "run" THEN H3
                      ELSE IF ~LiveObj(H3, object) THEN Fail(H3, "ub")
                      ELSE [H3 EXCEPT !.objs[object].items =
                                         SubSeq(@, 1, Len(@) - 1)]

FreeItemsLoop(H, object, fuel) ==
    IF H.st # "run" THEN H
    ELSE IF fuel = 0 THEN Fail(H, "diverged")
    ELSE IF H.objs[object].items = <<>> THEN H
    ELSE FreeItemsLoop(gwyfile_object_remove_last(H, object, TRUE, fuel - 1),
                       object, fuel - 1)

(* gwyfile_object_free() without its loop over the items. *)
gwyfile_object_free_shallow(H, object, fuel) ==
    IF H.st # "run" THEN H
    ELSE IF object = NULL THEN H
    ELSE IF ~LiveObj(H, object) THEN Fail(H, "ub")
    ELSE IF H.objs[object].owner # NULL THEN Fail(H, "abort")
    ELSE [H EXCEPT !.objs[object] = DeadObject]

gwyfile_object_free(H, object, fuel) ==
    IF H.st # "run" THEN H
    ELSE IF object = NULL THEN H
    ELSE IF fuel = 0 THEN Fail(H, "diverged")
    ELSE IF ~LiveObj(H, object) THEN Fail(H, "ub")
    ELSE IF H.objs[object].owner # NULL THEN Fail(H, "abort")
    ELSE LET H1 == FreeItemsLoop(H, object, fuel - 1)
         IN  IF H1.st # "run" THEN H1
             ELSE [H1 EXCEPT !.objs[object] = DeadObject]

(* for (i = 0; i < array_length; i++) { oa[i]->owner = NULL; free(oa[i]); } *)
FreeElementsLoop(H, oa, k, fuel) ==
    IF H.st # "run" THEN H
    ELSE IF k > Len(oa) THEN H
    ELSE IF fuel = 0 THEN Fail(H, "diverged")
    ELSE IF ~LiveObj(H, oa[k]) THEN Fail(H, "ub")
    ELSE FreeElementsLoop(
             gwyfile_object_free([H EXCEPT !.objs[oa[k]].owner = NULL], oa[k], fuel - 1),
             oa, k + 1, fuel - 1)

gwyfile_item_free(H, item, fuel) ==
    IF H.st # "run" THEN H
    ELSE IF item = NULL THEN H
    ELSE IF fuel = 0 THEN Fail(H, "diverged")
    ELSE IF ~LiveItem(H, item) THEN Fail(H, "ub")
    ELSE IF H.its[item].owner # NULL THEN Fail(H, "abort")
    ELSE LET it == H.its[item]
             H1 == IF it.type \in {GWYFILE_ITEM_OBJECT, GWYFILE_ITEM_OBJECT_ARRAY}
                      /\ it.data_owned
                   THEN FreeElementsLoop(H, it.oa, 1, fuel - 1)
                   ELSE H
         IN  IF H1.st # "run" THEN H1
             ELSE [H1 EXCEPT !.its[item] = DeadItem]

(* ---- construction ---- *)
gwyfile_object_new_internal(H, name) ==
    LET object == Lowest(FreeObjIds(H))
    IN  [H |-> [H EXCEPT !.objs[object] =
                    [FreeObject EXCEPT !.st = "live", !.name = name,
                                       !.name_len = Len(name)]],
         ret |-> object]

gwyfile_item_new_internal(type, name) ==
    [FreeItem EXCEPT !.st = "live", !.type = type, !.name = name,
                     !.name_len = Len(name), !.data_owned = TRUE]

gwyfile_item_new_internal_bool(H, name, value) ==
    LET item == Lowest(FreeItemIds(H))
    IN  [H EXCEPT !.its[item] =
            [gwyfile_item_new_internal(GWYFILE_ITEM_BOOL, name) EXCEPT
                !.data_size = 1,
                !.v = <<IF value # 0 THEN 1 ELSE 0>>]]

gwyfile_item_new_internal_string(H, name, value) ==
    LET item == Lowest(FreeItemIds(H))
    IN  [H EXCEPT !.its[item] =
            [gwyfile_item_new_internal(GWYFILE_ITEM_STRING, name) EXCEPT
                !.data_size = Len(value) + 1,
                !.v = value]]

gwyfile_item_new_internal_object(H, name, value) ==
    LET item == Lowest(FreeItemIds(H))
    IN  [H EXCEPT !.its[item] =
            [gwyfile_item_new_internal(GWYFILE_ITEM_OBJECT, name) EXCEPT
                !.data_size = gwyfile_object_size(H.objs[value]),
                !.oa = <<value>>],
                  !.objs[value].owner = item]

gwyfile_item_new_internal_object_array(H, name, value, array_length) ==
    LET item == Lowest(FreeItemIds(H))
    IN  [H EXCEPT !.its[item] =
            [gwyfile_item_new_internal(GWYFILE_ITEM_OBJECT_ARRAY, name) EXCEPT
                !.data_size = 4 + SumSeq([k \in 1..array_length |->
                                             gwyfile_object_size(H.objs[value[k]])]),
                !.oa = value,
                !.array_length = array_length],
                  !.objs = [o \in DOMAIN H.objs |->
                               IF \E k \in 1..array_length : value[k] = o
                               THEN [H.objs[o] EXCEPT !.owner = item]
                               ELSE H.objs[o]]]

(* ---- the public functions, as functions from heap to heap ---- *)
gwyfile_item_new_bool(H, name, value) ==
    gwyfile_item_new_internal_bool(H, name, value)

gwyfile_item_new_string(H, name, value) ==
    gwyfile_item_new_internal_string(H, name, value)

gwyfile_item_new_string_copy(H, name, value) ==
    gwyfile_item_new_internal_string(H, name, value)

gwyfile_item_new_string_const(H, name, value) ==
    LET item == Lowest(FreeItemIds(H))
    IN  [gwyfile_item_new_internal_string(H, name, value) EXCEPT
            !.its[item].data_owned = FALSE]

gwyfile_item_new_object(H, name, value) ==
    IF H.objs[value].owner # NULL THEN Fail(H, "abort")
    ELSE gwyfile_item_new_internal_object(H, name, value)

gwyfile_item_new_object_array(H, name, value, array_length) ==
    IF array_length = 0 THEN Fail(H, "abort")
    ELSE IF \E k \in 1..array_length : H.objs[value[k]].owner # NULL
         THEN Fail(H, "abort")
    ELSE gwyfile_item_new_internal_object_array(H, name, value, array_length)

RECURSIVE AppendAll(_, _, _, _)
AppendAll(H, object, list, k) ==
    IF H.st # "run" \/ k > Len(list) THEN H
    ELSE AppendAll(gwyfile_object_append(H, object, list[k]), object, list, k + 1)

(* gwyfile_object_new() and gwyfile_object_newv(): the items come as a list. *)
gwyfile_object_newv(H, name, list) ==
    LET new == gwyfile_object_new_internal(H, name)
        H1 == AppendAll(new.H, new.ret, list, 1)
        found == gwyfile_object_find_duplicate_item(H1, new.ret)
    IN  IF H1.st # "run" THEN H1
        ELSE IF found.H.st # "run" THEN found.H
        ELSE IF found.dup THEN Fail(found.H, "abort")
        ELSE found.H

(* gwyfile_object_add() with the scan of the names left out. *)
gwyfile_object_add_no_scan(H, object, item) ==
    IF H.its[item].owner # NULL THEN Fail(H, "abort")
    ELSE gwyfile_object_append(H, object, item)

gwyfile_object_add(H, object, item) ==
    IF H.its[item].owner # NULL THEN Fail(H, "abort")
    ELSE LET list == H.objs[object].items
         IN  IF \E k \in 1..Len(list) : ~LiveItem(H, list[k]) THEN Fail(H, "ub")
             ELSE IF \E k \in 1..Len(list) :
                        gwyfile_strequal(H.its[list[k]].name, H.its[item].name)
                  THEN H
             ELSE gwyfile_object_append(H, object, item)

(* The index of the first item called name, or nitems + 1 (the items are   *)
(* numbered from 1 here).                                                  *)
gwyfile_object_find(H, object, name) ==
    LET list == H.objs[object].items
        hits == {k \in 1..Len(list) : gwyfile_strequal(H.its[list[k]].name, name)}
    IN  IF hits = {} THEN Len(list) + 1 ELSE Lowest(hits)

SwapWithLast(list, i) ==
    [k \in 1..Len(list) |->
        IF k = i THEN list[Len(list)] ELSE IF k = Len(list) THEN list[i] ELSE list[k]]

(* gwyfile_object_remove() (freeitem) and gwyfile_object_take() (not). *)
RemoveOrTake(H, object, name, freeitem) ==
    LET list == H.objs[object].items
        nitems == Len(list)
    IN  IF \E k \in 1..nitems : ~LiveItem(H, list[k]) THEN Fail(H, "ub")
        ELSE LET i == gwyfile_object_find(H, object, name)
             IN  IF i <= nitems
                 THEN gwyfile_object_remove_last(
                          [H EXCEPT !.objs[object].items = SwapWithLast(list, i)],
                          object, freeitem, Fuel)
                 ELSE H

gwyfile_object_remove(H, object, name) == RemoveOrTake(H, object, name, TRUE)

gwyfile_object_take(H, object, name) == RemoveOrTake(H, object, name, FALSE)

(* The return value of gwyfile_object_add(): false when the loop has met   *)
(* the name.                                                              *)
gwyfile_object_add_returns(H, object, item) ==
    ~\E k \in 1..Len(H.objs[object].items) :
        gwyfile_strequal(H.its[H.objs[object].items[k]].name, H.its[item].name)

(* The item returned, or NULL; gwyfile_object_take() returns the same item *)
(* and gwyfile_object_remove() returns whether there is one.               *)
gwyfile_object_get(H, object, name) ==
    LET i == gwyfile_object_find(H, object, name)
    IN  IF i <= Len(H.objs[object].items) THEN H.objs[object].items[i] ELSE NULL

gwyfile_object_find_with_type(H, object, name, type) ==
    LET list == H.objs[object].items
        hits == {k \in 1..Len(list) : /\ H.its[list[k]].type = type
                                       /\ gwyfile_strequal(H.its[list[k]].name, name)}
    IN  IF hits = {} THEN Len(list) + 1 ELSE Lowest(hits)

gwyfile_object_get_with_type(H, object, name, type) ==
    LET i == gwyfile_object_find_with_type(H, object, name, type)
    IN  IF i <= Len(H.objs[object].items) THEN H.objs[object].items[i] ELSE NULL

(* gwyfile_object_take_with_type() with the test of the type left out. *)
gwyfile_object_take_any_type(H, object, name, type) ==
    gwyfile_object_take(H, object, name)

gwyfile_object_take_with_type(H, object, name, type) ==
    LET list == H.objs[object].items
        nitems == Len(list)
    IN  IF \E k \in 1..nitems : ~LiveItem(H, list[k]) THEN Fail(H, "ub")
        ELSE LET i == gwyfile_object_find_with_type(H, object, name, type)
             IN  IF i <= nitems
                 THEN gwyfile_object_remove_last(
                          [H EXCEPT !.objs[object].items = SwapWithLast(list, i)],
                          object, FALSE, Fuel)
                 ELSE H

(* The names in the array that gwyfile_object_item_names() returns, which  *)
(* is also the order in which gwyfile_object_foreach() calls its function. *)
gwyfile_object_item_names(H, object) ==
    [k \in 1..Len(H.objs[object].items) |-> H.its[H.objs[object].items[k]].name]

gwyfile_item_new_internal_char_array(H, name, value, array_length) ==
    LET item == Lowest(FreeItemIds(H))
    IN  [H EXCEPT !.its[item] =
            [gwyfile_item_new_internal(GWYFILE_ITEM_CHAR_ARRAY, name) EXCEPT
                !.data_size = 4 + array_length,
                !.array_length = array_length,
                !.v = value]]

gwyfile_item_new_char_array(H, name, value, array_length) ==
    IF array_length = 0 THEN Fail(H, "abort")
    ELSE gwyfile_item_new_internal_char_array(H, name, value, array_length)

(* gwyfile_item_set_char_array() without its test of the length. *)
gwyfile_item_set_char_array_any_length(H, item, value, array_length) ==
    IF H.its[item].type # GWYFILE_ITEM_CHAR_ARRAY THEN Fail(H, "abort")
    ELSE LET oldsize == H.its[item].data_size
             H1 == [H EXCEPT !.its[item].data_size = 4 + array_length,
                             !.its[item].array_length = array_length,
                             !.its[item].v = value,
                             !.its[item].data_owned = TRUE]
         IN  gwyfile_item_notify_size_change(H1, item, oldsize)

gwyfile_item_set_char_array(H, item, value, array_length) ==
    IF H.its[item].type # GWYFILE_ITEM_CHAR_ARRAY THEN Fail(H, "abort")
    ELSE IF array_length = 0 THEN Fail(H, "abort")
    ELSE LET oldsize == H.its[item].data_size
             H1 == [H EXCEPT !.its[item].data_size = 4 + array_length,
                             !.its[item].array_length = array_length,
                             !.its[item].v = value,
                             !.its[item].data_owned = TRUE]
         IN  gwyfile_item_notify_size_change(H1, item, oldsize)

gwyfile_item_set_string(H, item, value) ==
    IF H.its[item].type # GWYFILE_ITEM_STRING THEN Fail(H, "abort")
    ELSE LET oldsize == H.its[item].data_size
             H1 == [H EXCEPT !.its[item].data_size = Len(value) + 1,
                             !.its[item].v = value,
                             !.its[item].data_owned = TRUE]
         IN  gwyfile_item_notify_size_change(H1, item, oldsize)

gwyfile_item_set_string_copy(H, item, value) ==
    IF H.its[item].type # GWYFILE_ITEM_STRING THEN Fail(H, "abort")
    ELSE LET oldsize == H.its[item].data_size
             H1 == [H EXCEPT !.its[item].data_size = Len(value) + 1,
                             !.its[item].v = value,
                             !.its[item].data_owned = TRUE]
         IN  gwyfile_item_notify_size_change(H1, item, oldsize)

gwyfile_item_set_string_const(H, item, value) ==
    IF H.its[item].type # GWYFILE_ITEM_STRING THEN Fail(H, "abort")
    ELSE LET oldsize == H.its[item].data_size
             H1 == [H EXCEPT !.its[item].data_size = Len(value) + 1,
                             !.its[item].v = value,
                             !.its[item].data_owned = FALSE]
         IN  gwyfile_item_notify_size_change(H1, item, oldsize)

(* gwyfile_item_take_string() that hands the string out whatever the flag. *)
gwyfile_item_take_string_again(H, item) ==
    IF H.its[item].type # GWYFILE_ITEM_STRING THEN Fail(H, "abort")
    ELSE [H EXCEPT !.its[item].data_owned = FALSE]

gwyfile_item_take_string(H, item) ==
    IF H.its[item].type # GWYFILE_ITEM_STRING THEN Fail(H, "abort")
    ELSE IF ~H.its[item].data_owned THEN Fail(H, "abort")
    ELSE [H EXCEPT !.its[item].data_owned = FALSE]

gwyfile_item_set_object(H, item, value) ==
    IF H.its[item].type # GWYFILE_ITEM_OBJECT THEN Fail(H, "abort")
    ELSE IF H.objs[value].owner # NULL THEN Fail(H, "abort")
    ELSE LET oldsize == H.its[item].data_size
             H1 == gwyfile_object_free(H, H.its[item].oa[1], Fuel)
             H2 == IF H1.st # "run" THEN H1
                   ELSE IF ~LiveObj(H1, value) THEN Fail(H1, "ub")
                   ELSE [H1 EXCEPT !.its[item].data_size =
                                       gwyfile_object_size(H1.objs[value]),
                                   !.its[item].oa = <<value>>]
         IN  IF H2.st # "run" THEN H2
             ELSE gwyfile_item_notify_size_change(H2, item, oldsize)

gwyfile_item_set_object_array(H, item, value, array_length) ==
    IF H.its[item].type # GWYFILE_ITEM_OBJECT_ARRAY THEN Fail(H, "abort")
    ELSE IF array_length = 0 THEN Fail(H, "abort")
    ELSE IF \E k \in 1..array_length : H.objs[value[k]].owner # NULL
         THEN Fail(H, "abort")
    ELSE LET oldsize == H.its[item].data_size
             H1 == IF H.its[item].data_owned
                   THEN FreeElementsLoop(H, H.its[item].oa, 1, Fuel)
                   ELSE H
             H2 == IF H1.st # "run" THEN H1
                   ELSE IF \E k \in 1..array_length : ~LiveObj(H1, value[k])
                        THEN Fail(H1, "ub")
                   ELSE [H1 EXCEPT !.its[item].data_size =
                                       4 + SumSeq([k \in 1..array_length |->
                                              gwyfile_object_size(H1.objs[value[k]])]),
                                   !.its[item].array_length = array_length,
                                   !.its[item].oa = value,
                                   !.its[item].data_owned = TRUE]
         IN  IF H2.st # "run" THEN H2
             ELSE gwyfile_item_notify_size_change(H2, item, oldsize)

gwyfile_item_release_object(H, item) ==
    IF H.its[item].type # GWYFILE_ITEM_OBJECT THEN Fail(H, "abort")
    ELSE IF H.its[item].owner # NULL THEN Fail(H, "abort")
    ELSE LET object == H.its[item].oa[1]
         IN  IF ~LiveObj(H, object) THEN Fail(H, "ub")
             ELSE gwyfile_item_free(
                      [H EXCEPT !.objs[object].owner = NULL,
                                !.its[item].data_owned = FALSE],
                      item, Fuel)

(* ---- the GWY stream ---- *)
GWYFILE_MAGIC_HEADER2 == <<71, 87, 89, 80>>

Min(a, b) == IF a < b THEN a ELSE b
Max(a, b) == IF a > b THEN a ELSE b

Error(domain, code) == [domain |-> domain, code |-> code]
NoError == Error(0 - 1, 0 - 1)
(* gwyfile_set_error_overrun(); gwyfile_set_error_fread() at the end of    *)
(* the file gives the same pair.                                          *)
ErrorConfinement == Error(GWYFILE_ERROR_DOMAIN_DATA, GWYFILE_ERROR_CONFINEMENT)

(* A 32bit little-endian integer of the file, and back. *)
LeToU32(b) == b[1] + 256 * b[2] + 65536 * b[3] + 16777216 * b[4]
U32ToLe(n) == <<n % 256, (n \div 256) % 256, (n \div 65536) % 256,
                (n \div 16777216) % 256>>

(* fread() of n bytes at position p of the stream s: the bytes that are    *)
(* there are consumed.                                                    *)
fread(s, p, n) ==
    LET got == Min(n, Len(s) - p)
    IN  [count |-> got, bytes |-> SubSeq(s, p + 1, p + got), pos |-> p + got]

gwyfile_check_size_keeps(max_size, size) ==
    [ok |-> max_size >= size, max_size |-> max_size]

gwyfile_check_size(max_size, size) ==
    [ok |-> max_size >= size, max_size |-> max_size - size]

(* What a reading step gives back when it fails and when it succeeds. *)
ReadFailed(err, p) ==
    [ok |-> FALSE, err |-> err, pos |-> p, max_size |-> 0, v |-> <<>>, sa |-> <<>>]
ReadDone(p, max_size, v, sa) ==
    [ok |-> TRUE, err |-> NoError, pos |-> p, max_size |-> max_size, v |-> v, sa |-> sa]

(* The loop of gwyfile_fread_string(): len characters are stored in a      *)
(* buffer of size characters.                                             *)
RECURSIVE fread_string_loop(_, _, _, _, _, _)
fread_string_loop(s, p, max_size, len, size, str) ==
    IF p >= Len(s) THEN ReadFailed(ErrorConfinement, p)
    ELSE LET c == s[p + 1]
         IN  IF len = size /\ len = max_size
             THEN ReadFailed(ErrorConfinement, p + 1)
             ELSE IF len = size /\ size \div 65536 >= 32768
             THEN ReadFailed(Error(GWYFILE_ERROR_DOMAIN_DATA,
                                   GWYFILE_ERROR_LONG_STRING), p + 1)
             ELSE LET newsize == IF len = size
                                 THEN Min(Max(2 * size, 16), max_size)
                                 ELSE size
                  IN  IF c = 0
                      THEN ReadDone(p + 1, max_size - (len + 1), str, <<>>)
                      ELSE fread_string_loop(s, p + 1, max_size, len + 1, newsize,
                                             Append(str, c))

gwyfile_fread_string(s, p, max_size) ==
    IF max_size = 0 THEN ReadFailed(ErrorConfinement, p)
    ELSE fread_string_loop(s, p, max_size, 0, 0, <<>>)

(* The buffer of gwyfile_fread_string(): the size of the first realloc(),  *)
(* 0 when the function returns before it.  The first pass of the loop has  *)
(* len = size = 0, so it allocates once fgetc() has given a character and  *)
(* the budget is not zero.                                                *)
fread_string_realloc(s, p, max_size) ==
    IF max_size = 0 \/ p >= Len(s) THEN 0
    ELSE Min(Max(2 * 0, 16), max_size)

(* ---- gwyfile_fread_string() on lengths up to SIZE_MAX ---- *)
(* A length of up to 32 bits, hi * 65536 + lo. *)
Big(hi, lo) == [hi |-> hi, lo |-> lo]
BigLess(a, b) == a.hi < b.hi \/ (a.hi = b.hi /\ a.lo < b.lo)
BigDouble(a) == Big(2 * a.hi + (2 * a.lo) \div 65536, (2 * a.lo) % 65536)
BigSucc(a) == IF a.lo = 65535 THEN Big(a.hi + 1, 0) ELSE Big(a.hi, a.lo + 1)
BigMinus(a, b) ==
    IF a.lo >= b.lo THEN Big(a.hi - b.hi, a.lo - b.lo)
    ELSE Big(a.hi - b.hi - 1, a.lo + 65536 - b.lo)
gwyfile_max(a, b) == IF BigLess(a, b) THEN b ELSE a
gwyfile_min(a, b) == IF BigLess(b, a) THEN b ELSE a

EOF == -1
StringFailed(err) == [st |-> "fail", err |-> err]

(* One pass of the loop with the realloc() left out: the buffer is not    *)
(* grown and neither limit is tested.                                      *)
fread_string_pass_unlimited(len, size, max_size, c) ==
    IF c = EOF THEN StringFailed(ErrorConfinement)
    ELSE IF c = 0
    THEN [st |-> "ok", err |-> NoError, max_size |-> BigMinus(max_size, BigSucc(len))]
    ELSE [st |-> "reading", err |-> NoError, len |-> BigSucc(len), size |-> size]

(* One pass of the do-while loop of gwyfile_fread_string(): fgetc() gave   *)
(* c, len characters are stored in a buffer of size bytes.                 *)
fread_string_pass(len, size, max_size, c) ==
    IF c = EOF THEN StringFailed(ErrorConfinement)
    ELSE IF len = size /\ len = max_size THEN StringFailed(ErrorConfinement)
    ELSE IF len = size /\ size.hi >= 32768
    THEN StringFailed(Error(GWYFILE_ERROR_DOMAIN_DATA, GWYFILE_ERROR_LONG_STRING))
    ELSE LET grown == IF len = size
                      THEN gwyfile_min(gwyfile_max(BigDouble(size), Big(0, 16)), max_size)
                      ELSE size
         IN  IF c = 0
             THEN [st |-> "ok", err |-> NoError,
                   max_size |-> BigMinus(max_size, BigSucc(len))]
             ELSE [st |-> "reading", err |-> NoError, len |-> BigSucc(len), size |-> grown]

gwyfile_item_type_is_valid(type) ==
    type \in {GWYFILE_ITEM_BOOL, GWYFILE_ITEM_CHAR, GWYFILE_ITEM_INT32,
              GWYFILE_ITEM_INT64, GWYFILE_ITEM_DOUBLE, GWYFILE_ITEM_STRING,
              GWYFILE_ITEM_OBJECT, GWYFILE_ITEM_CHAR_ARRAY,
              GWYFILE_ITEM_INT32_ARRAY, GWYFILE_ITEM_INT64_ARRAY,
              GWYFILE_ITEM_DOUBLE_ARRAY, GWYFILE_ITEM_STRING_ARRAY,
              GWYFILE_ITEM_OBJECT_ARRAY}

gwyfile_item_type_is_array(type) ==
    type \in {GWYFILE_ITEM_CHAR_ARRAY, GWYFILE_ITEM_INT32_ARRAY,
              GWYFILE_ITEM_INT64_ARRAY, GWYFILE_ITEM_DOUBLE_ARRAY,
              GWYFILE_ITEM_STRING_ARRAY, GWYFILE_ITEM_OBJECT_ARRAY}

(* sizeof() of the value, or of one element, of the numeric types. *)
SizeOfType(type) ==
    IF type \in {GWYFILE_ITEM_BOOL, GWYFILE_ITEM_CHAR, GWYFILE_ITEM_CHAR_ARRAY} THEN 1
    ELSE IF type \in {GWYFILE_ITEM_INT32, GWYFILE_ITEM_INT32_ARRAY} THEN 4
    ELSE 8

(* The head of gwyfile_item_fread_internal(): name, type and array length. *)
(* The name is in v, the type and the length in sa.                        *)
ItemFreadHead(s, p, max_size) ==
    LET name == gwyfile_fread_string(s, p, max_size)
    IN  IF ~name.ok THEN name
        ELSE LET room == gwyfile_check_size(name.max_size, 1)
                 c == fread(s, name.pos, 1)
             IN  IF ~room.ok THEN ReadFailed(ErrorConfinement, name.pos)
                 ELSE IF c.count # 1 THEN ReadFailed(ErrorConfinement, c.pos)
                 ELSE IF ~gwyfile_item_type_is_valid(c.bytes[1])
                 THEN ReadFailed(Error(GWYFILE_ERROR_DOMAIN_DATA,
                                       GWYFILE_ERROR_ITEM_TYPE), c.pos)
                 ELSE IF ~gwyfile_item_type_is_array(c.bytes[1])
                 THEN ReadDone(c.pos, room.max_size, name.v, <<c.bytes[1], 0>>)
                 ELSE LET aroom == gwyfile_check_size(room.max_size, 4)
                          alen == fread(s, c.pos, 4)
                      IN  IF ~aroom.ok THEN ReadFailed(ErrorConfinement, c.pos)
                          ELSE IF alen.count # 4
                          THEN ReadFailed(ErrorConfinement, alen.pos)
                          ELSE IF LeToU32(alen.bytes) = 0
                          THEN ReadFailed(Error(GWYFILE_ERROR_DOMAIN_DATA,
                                                GWYFILE_ERROR_ARRAY_SIZE), alen.pos)
                          ELSE ReadDone(alen.pos, aroom.max_size, name.v,
                                        <<c.bytes[1], LeToU32(alen.bytes)>>)

(* The strings of a string array, one gwyfile_fread_string() each. *)
RECURSIVE StringArrayLoop(_, _, _, _, _)
StringArrayLoop(s, p, max_size, alen, sa) ==
    IF Len(sa) = alen THEN ReadDone(p, max_size, <<>>, sa)
    ELSE LET str == gwyfile_fread_string(s, p, max_size)
         IN  IF ~str.ok THEN str
             ELSE StringArrayLoop(s, str.pos, str.max_size, alen, Append(sa, str.v))

(* The branches of gwyfile_item_fread_internal() that read a value holding *)
(* no object.  The bytes of a character array that fread() has not filled  *)
(* are what malloc() gave: fill.                                          *)
ItemFreadValue(type, alen, s, p, max_size, fill) ==
    IF type \in {GWYFILE_ITEM_BOOL, GWYFILE_ITEM_CHAR, GWYFILE_ITEM_INT32,
                 GWYFILE_ITEM_INT64, GWYFILE_ITEM_DOUBLE}
    THEN LET room == gwyfile_check_size(max_size, SizeOfType(type))
             val == fread(s, p, SizeOfType(type))
         IN  IF ~room.ok THEN ReadFailed(ErrorConfinement, p)
             ELSE IF val.count # SizeOfType(type)
             THEN ReadFailed(ErrorConfinement, val.pos)
             ELSE ReadDone(val.pos, room.max_size, val.bytes, <<>>)
    ELSE IF type = GWYFILE_ITEM_STRING
    THEN gwyfile_fread_string(s, p, max_size)
    ELSE IF type = GWYFILE_ITEM_CHAR_ARRAY
    THEN LET room == gwyfile_check_size(max_size, alen)
             ca == fread(s, p, alen)
         IN  IF ~room.ok THEN ReadFailed(ErrorConfinement, p)
             ELSE IF ca.count = 0 THEN ReadFailed(ErrorConfinement, ca.pos)
             ELSE ReadDone(ca.pos, room.max_size,
                           ca.bytes \o [k \in 1..(alen - ca.count) |-> fill], <<>>)
    ELSE IF type \in {GWYFILE_ITEM_INT32_ARRAY, GWYFILE_ITEM_INT64_ARRAY,
                      GWYFILE_ITEM_DOUBLE_ARRAY}
    THEN LET size == alen * SizeOfType(type)
             arr == fread(s, p, size)
         IN  IF alen > max_size \div SizeOfType(type)
             THEN ReadFailed(ErrorConfinement, p)
             ELSE IF arr.count # size THEN ReadFailed(ErrorConfinement, arr.pos)
             ELSE ReadDone(arr.pos,
                           IF type = GWYFILE_ITEM_DOUBLE_ARRAY THEN max_size
                           ELSE max_size - size,
                           arr.bytes, <<>>)
    ELSE IF alen > max_size THEN ReadFailed(ErrorConfinement, p)
    ELSE StringArrayLoop(s, p, max_size, alen, <<>>)

(* gwyfile_item_new_internal_bool(), _char(), ... _string_array(): the item *)
(* made of a value that holds no object.                                  *)
gwyfile_item_new_internal_value(H, type, name, alen, v, sa) ==
    IF type = GWYFILE_ITEM_BOOL THEN gwyfile_item_new_internal_bool(H, name, v[1])
    ELSE IF type = GWYFILE_ITEM_STRING THEN gwyfile_item_new_internal_string(H, name, v)
    ELSE LET item == Lowest(FreeItemIds(H))
         IN  [H EXCEPT !.its[item] =
                 [gwyfile_item_new_internal(type, name) EXCEPT
                     !.data_size =
                         IF type = GWYFILE_ITEM_STRING_ARRAY
                         THEN 4 + SumSeq([k \in 1..alen |-> Len(sa[k]) + 1])
                         ELSE IF gwyfile_item_type_is_array(type)
                         THEN 4 + alen * SizeOfType(type)
                         ELSE SizeOfType(type),
                     !.array_length = alen,
                     !.v = v,
                     !.sa = sa]]

(* ---- writing ---- *)
RECURSIVE gwyfile_object_fwrite(_, _, _, _, _)
RECURSIVE gwyfile_item_fwrite(_, _, _, _, _)
RECURSIVE FwriteAll(_, _, _, _, _, _, _)
RECURSIVE FwriteChunks(_, _, _)

(* What a writing function gives back: its result, the error sink after    *)
(* it, the bytes put out so far, and "abort" for the process when an       *)
(* assertion failed.                                                       *)
Wrote(ok, err, bytes) == [ok |-> ok, err |-> err, bytes |-> bytes, st |-> "run"]
WriteAborted(err, bytes) == [ok |-> FALSE, err |-> err, bytes |-> bytes, st |-> "abort"]

(* The error that gwyfile_set_error_errno() makes: SYSTEM with the errno   *)
(* that the failed call has left.                                          *)
ErrorErrno == [domain |-> GWYFILE_ERROR_DOMAIN_SYSTEM, code |-> "errno"]

(* gwyfile_set_error(), called by a writing function that has put out      *)
(* bytes: assert(!*error), then the sink holds the new error.              *)
gwyfile_set_error(error, domain, code, bytes) ==
    IF error # NoError THEN WriteAborted(error, bytes)
    ELSE Wrote(FALSE, Error(domain, code), bytes)

(* A function that fails like one that calls gwyfile_set_error_errno()     *)
(* but leaves the sink as it is.                                           *)
gwyfile_set_error_errno_unset(error, bytes) == Wrote(FALSE, error, bytes)

gwyfile_set_error_errno(error, bytes) ==
    IF error # NoError THEN WriteAborted(error, bytes)
    ELSE Wrote(FALSE, ErrorErrno, bytes)

(* Consecutive fwrite() calls on a stream that takes room more bytes: the  *)
(* first call that does not fit writes what fits and fails.                *)
FwriteChunks(chunks, k, room) ==
    IF k > Len(chunks) THEN [ok |-> TRUE, bytes |-> <<>>]
    ELSE IF Len(chunks[k]) > room
    THEN [ok |-> FALSE, bytes |-> SubSeq(chunks[k], 1, room)]
    ELSE LET more == FwriteChunks(chunks, k + 1, room - Len(chunks[k]))
         IN  [ok |-> more.ok, bytes |-> chunks[k] \o more.bytes]

(* The loops of gwyfile_object_fwrite() (over items) and of               *)
(* gwyfile_item_fwrite() (over the objects of an array): they stop at the  *)
(* first failure.                                                         *)
FwriteAll(H, list, k, ofitems, room, error, fuel) ==
    IF k > Len(list) THEN Wrote(TRUE, error, <<>>)
    ELSE LET one == IF ofitems THEN gwyfile_item_fwrite(H, list[k], room, error, fuel)
                    ELSE gwyfile_object_fwrite(H, list[k], room, error, fuel)
         IN  IF ~one.ok THEN one
             ELSE LET more == FwriteAll(H, list, k + 1, ofitems,
                                        room - Len(one.bytes), one.err, fuel)
                  IN  [more EXCEPT !.bytes = one.bytes \o @]

StringsWithNul(sa) ==
    [k \in 1..Len(sa) |-> sa[k] \o <<0>>]

(* The size test of gwyfile_object_fwrite() made on 32 bits of data_size. *)
ObjectSizeTooLarge32(hi, lo, name_len) ==
    (hi % 65536) + (lo + 4 + name_len) \div 65536 >= 65536

(* The size test of gwyfile_object_fwrite():                                *)
(*     data_size > (size_t)0xffffffffu - sizeof(uint32_t) - name_len        *)
(* with data_size a size_t of 64 bits.  Sizes about 2^32 are beyond the     *)
(* integers of the checker, so data_size is held as hi * 65536 + lo with    *)
(* lo < 65536; the test is data_size + 4 + name_len >= 2^32.                *)
ObjectSizeTooLarge(hi, lo, name_len) ==
    hi + (lo + 4 + name_len) \div 65536 >= 65536

(* The stream takes room more bytes; error is the caller's sink. *)
gwyfile_object_fwrite(H, object, room, error, fuel) ==
    IF fuel = 0 \/ ~LiveObj(H, object) THEN Wrote(FALSE, NoError, <<>>)
    ELSE LET ob == H.objs[object]
             head == FwriteChunks(<<ob.name \o <<0>>, U32ToLe(ob.data_size)>>, 1, room)
             body == FwriteAll(H, ob.items, 1, TRUE, room - Len(head.bytes), error,
                               fuel - 1)
         IN  IF ObjectSizeTooLarge(ob.data_size \div 65536, ob.data_size % 65536,
                                   ob.name_len)
             THEN gwyfile_set_error(error, GWYFILE_ERROR_DOMAIN_DATA,
                                    GWYFILE_ERROR_OBJECT_SIZE, <<>>)
             ELSE IF ~head.ok THEN gwyfile_set_error_errno(error, head.bytes)
             ELSE [body EXCEPT !.bytes = head.bytes \o @]

gwyfile_item_fwrite(H, item, room, error, fuel) ==
    IF fuel = 0 \/ ~LiveItem(H, item) THEN Wrote(FALSE, NoError, <<>>)
    ELSE LET it == H.its[item]
             alen == U32ToLe(it.array_length)
             chunks ==
                 <<it.name \o <<0>>, <<it.type>>>> \o
                 (IF it.type \in {GWYFILE_ITEM_BOOL, GWYFILE_ITEM_CHAR,
                                  GWYFILE_ITEM_INT32, GWYFILE_ITEM_INT64,
                                  GWYFILE_ITEM_DOUBLE}
                  THEN <<it.v>>
                  ELSE IF it.type = GWYFILE_ITEM_STRING THEN <<it.v \o <<0>>>>
                  ELSE IF it.type = GWYFILE_ITEM_OBJECT THEN <<>>
                  ELSE IF it.type \in {GWYFILE_ITEM_CHAR_ARRAY, GWYFILE_ITEM_INT32_ARRAY,
                                       GWYFILE_ITEM_INT64_ARRAY,
                                       GWYFILE_ITEM_DOUBLE_ARRAY}
                  THEN <<alen, it.v>>
                  ELSE IF it.type = GWYFILE_ITEM_STRING_ARRAY
                  THEN <<alen>> \o StringsWithNul(it.sa)
                  ELSE <<alen>>)
             head == FwriteChunks(chunks, 1, room)
             left == room - Len(head.bytes)
         IN  IF ~head.ok THEN gwyfile_set_error_errno(error, head.bytes)
             ELSE IF it.type = GWYFILE_ITEM_OBJECT
             THEN LET ob == gwyfile_object_fwrite(H, it.oa[1], left, error, fuel - 1)
                  IN  [ob EXCEPT !.bytes = head.bytes \o @]
             ELSE IF it.type = GWYFILE_ITEM_OBJECT_ARRAY
             THEN LET obs == FwriteAll(H, it.oa, 1, FALSE, left, error, fuel - 1)
                  IN  [obs EXCEPT !.bytes = head.bytes \o @]
             ELSE Wrote(TRUE, error, head.bytes)

gwyfile_fwrite(H, object, room, error) ==
    LET magic == FwriteChunks(<<GWYFILE_MAGIC_HEADER2>>, 1, room)
        ob == gwyfile_object_fwrite(H, object, room - Len(magic.bytes), error, Fuel)
    IN  IF ~magic.ok THEN gwyfile_set_error_errno(error, magic.bytes)
        ELSE [ob EXCEPT !.bytes = magic.bytes \o @]

(* ---- reading: the calls in progress ---- *)
Frame(kind, phase, max_size, depth, owner) ==
    [kind |-> kind, phase |-> phase, max_size |-> max_size, depth |-> depth,
     owner |-> owner, object |-> NULL, data_size |-> 0, name |-> <<>>,
     type |-> 0, alen |-> 0, oa |-> <<>>]

TooDeepOffByOne(depth) == depth > GWYFILE_MAX_DEPTH

(* The test at the head of gwyfile_object_fread_internal(). *)
TooDeep(depth) == depth >= GWYFILE_MAX_DEPTH

(* ---- checking a tree ---- *)
(* The loop of gwyfile_is_valid_utf8() from character k on, with the       *)
(* number of 10xxxxxx bytes that the sequence begun still needs.           *)
RECURSIVE is_valid_utf8_loop(_, _, _)
is_valid_utf8_loop(s, k, remains_10xxxxxx) ==
    IF k > Len(s) THEN remains_10xxxxxx = 0
    ELSE LET b == s[k]
         IN  IF remains_10xxxxxx = 0
             THEN IF b < 128 THEN is_valid_utf8_loop(s, k + 1, 0)
                  ELSE IF b >= 192 /\ b < 224 THEN is_valid_utf8_loop(s, k + 1, 1)
                  ELSE IF b >= 224 /\ b < 240 THEN is_valid_utf8_loop(s, k + 1, 2)
                  ELSE IF b >= 240 /\ b < 248 THEN is_valid_utf8_loop(s, k + 1, 3)
                  ELSE IF b >= 248 /\ b < 252 THEN is_valid_utf8_loop(s, k + 1, 4)
                  ELSE IF b >= 252 /\ b < 254 THEN is_valid_utf8_loop(s, k + 1, 5)
                  ELSE FALSE
             ELSE IF ~(b >= 128 /\ b < 192) THEN FALSE
                  ELSE is_valid_utf8_loop(s, k + 1, remains_10xxxxxx - 1)

gwyfile_is_valid_utf8(s) == is_valid_utf8_loop(s, 1, 0)

IsLetter(c) == (c >= 65 /\ c <= 90) \/ (c >= 97 /\ c <= 122)

gwyfile_is_valid_identifier(s) ==
    /\ s # <<>>
    /\ IsLetter(s[1])
    /\ \A k \in 2..Len(s) : IsLetter(s[k]) \/ (s[k] >= 48 /\ s[k] <= 57) \/ s[k] = 95

(* The double is the eight bytes of the file, the lowest first: the biased *)
(* exponent is the low seven bits of the last byte and the high four of    *)
(* the one before.                                                        *)
gwyfile_double_isnormal(x) ==
    ~((x[8] % 128) * 16 + x[7] \div 16 = 2047)

(* GwyfileErrorList, or the NULL passed in its place. *)
NoErrorList == [null |-> TRUE, errors |-> <<>>]
ErrorList(errors) == [null |-> FALSE, errors |-> errors]

(* What the checking functions give back. *)
Checked(ok, errlist) == [ok |-> ok, errlist |-> errlist]

(* The four tests: true, or false with, unless errlist is NULL, an error   *)
(* appended by gwyfile_error_list_append().                               *)
CheckFailed(errlist, domain, code) ==
    IF errlist.null THEN Checked(FALSE, errlist)
    ELSE Checked(FALSE, ErrorList(Append(errlist.errors, Error(domain, code))))

gwyfile_check_valid_utf8(s, code, errlist) ==
    IF gwyfile_is_valid_utf8(s) THEN Checked(TRUE, errlist)
    ELSE CheckFailed(errlist, GWYFILE_ERROR_DOMAIN_VALIDITY, code)

gwyfile_check_valid_identifier(ob, errlist) ==
    IF gwyfile_is_valid_identifier(ob.name) THEN Checked(TRUE, errlist)
    ELSE CheckFailed(errlist, GWYFILE_ERROR_DOMAIN_WARNING,
                     GWYFILE_WARNING_TYPE_IDENTIFIER)

gwyfile_check_nonempty_name(it, errlist) ==
    IF Len(it.name) # 0 THEN Checked(TRUE, errlist)
    ELSE CheckFailed(errlist, GWYFILE_ERROR_DOMAIN_WARNING, GWYFILE_WARNING_EMPTY_NAME)

gwyfile_check_double(x, errlist) ==
    IF gwyfile_double_isnormal(x) THEN Checked(TRUE, errlist)
    ELSE CheckFailed(errlist, GWYFILE_ERROR_DOMAIN_VALIDITY, GWYFILE_INVALID_DOUBLE)

HasFlag(flags, flag) == (flags \div flag) % 2 = 1

(* A checking function on its way: it has returned false already (the      *)
(* "&& !errlist return false" after a test that failed), or goes on with   *)
(* the list as it is.                                                     *)
Going(errlist) == [returned |-> FALSE, errlist |-> errlist]
Then(r, Test(_)) ==
    IF r.returned THEN r
    ELSE LET c == Test(r.errlist)
         IN  [returned |-> ~c.ok /\ r.errlist.null, errlist |-> c.errlist]
When(cond, r, Test(_)) == IF cond THEN Then(r, Test) ELSE r

(* return !errlist || errlist->n == oldn; *)
CheckReturn(r, oldn) ==
    IF r.returned THEN Checked(FALSE, r.errlist)
    ELSE Checked(r.errlist.null \/ Len(r.errlist.errors) = oldn, r.errlist)

RECURSIVE gwyfile_check_object_internal(_, _, _, _, _)
RECURSIVE gwyfile_check_item_internal(_, _, _, _, _)
RECURSIVE CheckAll(_, _, _, _, _, _, _)
RECURSIVE CheckValues(_, _, _, _)

(* The loops over the strings and the doubles of an array: sa holds the    *)
(* strings, v the doubles, eight bytes each.                              *)
CheckValues(it, k, r, ofstrings) ==
    IF r.returned \/ k > it.array_length THEN r
    ELSE CheckValues(it, k + 1,
             Then(r, LAMBDA el :
                 IF ofstrings
                 THEN gwyfile_check_valid_utf8(it.sa[k], GWYFILE_INVALID_UTF8_STRING, el)
                 ELSE gwyfile_check_double(SubSeq(it.v, 8 * k - 7, 8 * k), el)),
             ofstrings)

(* The loops over the items of an object and over the objects of an array. *)
CheckAll(H, list, k, flags, r, ofitems, fuel) ==
    IF r.returned \/ k > Len(list) THEN r
    ELSE CheckAll(H, list, k + 1, flags,
             Then(r, LAMBDA el :
                 IF ofitems
                 THEN gwyfile_check_item_internal(H, list[k], flags, el, fuel)
                 ELSE gwyfile_check_object_internal(H, list[k], flags, el, fuel)),
             ofitems, fuel)

gwyfile_check_object_internal(H, object, flags, errlist, fuel) ==
    IF fuel = 0 \/ ~LiveObj(H, object) THEN Checked(FALSE, errlist)
    ELSE LET ob == H.objs[object]
             oldn == Len(errlist.errors)
             a == When(HasFlag(flags, GWYFILE_CHECK_FLAG_VALIDITY), Going(errlist),
                       LAMBDA el : gwyfile_check_valid_utf8(
                                       ob.name, GWYFILE_INVALID_UTF8_TYPE, el))
             b == When(HasFlag(flags, GWYFILE_CHECK_FLAG_WARNING), a,
                       LAMBDA el : gwyfile_check_valid_identifier(ob, el))
         IN  CheckReturn(CheckAll(H, ob.items, 1, flags, b, TRUE, fuel - 1), oldn)

gwyfile_check_item_internal(H, item, flags, errlist, fuel) ==
    IF fuel = 0 \/ ~LiveItem(H, item) THEN Checked(FALSE, errlist)
    ELSE LET it == H.its[item]
             oldn == Len(errlist.errors)
             validity == HasFlag(flags, GWYFILE_CHECK_FLAG_VALIDITY)
             a == When(validity, Going(errlist),
                       LAMBDA el : gwyfile_check_valid_utf8(
                                       it.name, GWYFILE_INVALID_UTF8_NAME, el))
             b == When(HasFlag(flags, GWYFILE_CHECK_FLAG_WARNING), a,
                       LAMBDA el : gwyfile_check_nonempty_name(it, el))
             c == IF ~validity THEN b
                  ELSE IF it.type = GWYFILE_ITEM_STRING
                  THEN Then(b, LAMBDA el : gwyfile_check_valid_utf8(
                                               it.v, GWYFILE_INVALID_UTF8_STRING, el))
                  ELSE IF it.type = GWYFILE_ITEM_STRING_ARRAY
                  THEN CheckValues(it, 1, b, TRUE)
                  ELSE IF it.type = GWYFILE_ITEM_DOUBLE
                  THEN Then(b, LAMBDA el : gwyfile_check_double(it.v, el))
                  ELSE IF it.type = GWYFILE_ITEM_DOUBLE_ARRAY
                  THEN CheckValues(it, 1, b, FALSE)
                  ELSE b
             d == IF it.type = GWYFILE_ITEM_OBJECT
                  THEN Then(c, LAMBDA el : gwyfile_check_object_internal(
                                               H, it.oa[1], flags, el, fuel - 1))
                  ELSE IF it.type = GWYFILE_ITEM_OBJECT_ARRAY
                  THEN CheckAll(H, it.oa, 1, flags, c, FALSE, fuel - 1)
                  ELSE c
         IN  CheckReturn(d, oldn)

(* gwyfile_check_object() that takes every error of the list for its own. *)
gwyfile_check_object_counts_all(H, object, flags, errlist) ==
    IF ~HasFlag(flags, GWYFILE_CHECK_FLAG_VALIDITY)
           /\ ~HasFlag(flags, GWYFILE_CHECK_FLAG_WARNING)
    THEN Checked(TRUE, errlist)
    ELSE LET r == gwyfile_check_object_internal(H, object, flags, errlist, Fuel)
         IN  Checked(r.ok /\ r.errlist.errors = <<>>, r.errlist)

gwyfile_check_object(H, object, flags, errlist) ==
    IF ~HasFlag(flags, GWYFILE_CHECK_FLAG_VALIDITY)
           /\ ~HasFlag(flags, GWYFILE_CHECK_FLAG_WARNING)
    THEN Checked(TRUE, errlist)
    ELSE gwyfile_check_object_internal(H, object, flags, errlist, Fuel)

(* ---- the calling program ---- *)
CurHeap == Heap(objects, items, status)

(* A failed assertion or a use of freed memory ends the process: the heap  *)
(* is kept as it was when the call was made.  A call that never returns    *)
(* leaves the heap as the call has changed it so far.                      *)
Commit(H) ==
    /\ status' = H.st
    /\ objects' = IF H.st \in {"abort", "ub"} THEN objects ELSE H.objs
    /\ items' = IF H.st \in {"abort", "ub"} THEN items ELSE H.its

(* A call of a function that touches no stream. *)
Call(H) == Commit(H) /\ UNCHANGED codecVars

(* The program calls the tree functions before it starts to read a file. *)
CanCall == status = "run" /\ info.mode = "build"

LiveObjs == {o \in DOMAIN objects : objects[o].st = "live"}
LiveItems == {i \in DOMAIN items : items[i].st = "live"}

SeqsOf(S, n) == UNION {[1..m -> S] : m \in 0..n}
IsInjective(s) == \A j, k \in 1..Len(s) : j # k => s[j] # s[k]
ObjArrayInputs == {s \in SeqsOf(LiveObjs, MaxArrayLen) : Len(s) > 0 /\ IsInjective(s)}
ItemListInputs == SeqsOf(LiveItems, MaxArrayLen)

(* The heap holds at most MaxNodes nodes, counting the freed ones. *)
Allocated ==
    Cardinality(DOMAIN objects \ FreeObjIds(CurHeap))
        + Cardinality(DOMAIN items \ FreeItemIds(CurHeap))
CanNewItem == CanCall /\ FreeItemIds(CurHeap) # {} /\ Allocated < MaxNodes
CanNewObject == CanCall /\ FreeObjIds(CurHeap) # {} /\ Allocated < MaxNodes

CallItemNewBool ==
    /\ CanNewItem
    /\ \E name \in ItemNames, value \in BoolInputs :
          Call(gwyfile_item_new_bool(CurHeap, name, value))

(* Names enough for an object of three items. *)
OrderNames == ItemNames \cup {<<100>>}

CallItemNewNamed ==
    /\ CanNewItem
    /\ \E name \in OrderNames, value \in BoolInputs :
          Call(gwyfile_item_new_bool(CurHeap, name, value))

CallItemNewString ==
    /\ CanNewItem
    /\ \E name \in ItemNames, value \in StrInputs :
          Call(gwyfile_item_new_string(CurHeap, name, value))

CallItemNewObject ==
    /\ CanNewItem
    /\ \E name \in ItemNames, value \in LiveObjs :
          Call(gwyfile_item_new_object(CurHeap, name, value))

CallItemNewObjectArray ==
    /\ CanNewItem
    /\ \E name \in ItemNames, value \in ObjArrayInputs :
          Call(gwyfile_item_new_object_array(CurHeap, name, value, Len(value)))

CallObjectNew ==
    /\ CanNewObject
    /\ \E name \in ObjNames, list \in ItemListInputs :
          Call(gwyfile_object_newv(CurHeap, name, list))

CallObjectAdd ==
    /\ CanCall
    /\ \E object \in LiveObjs, item \in LiveItems :
          Call(gwyfile_object_add(CurHeap, object, item))

CallObjectRemove ==
    /\ CanCall
    /\ \E object \in LiveObjs, name \in ItemNames :
          Call(gwyfile_object_remove(CurHeap, object, name))

CallObjectTake ==
    /\ CanCall
    /\ \E object \in LiveObjs, name \in ItemNames :
          Call(gwyfile_object_take(CurHeap, object, name))

CallItemSetString ==
    /\ CanCall
    /\ \E item \in LiveItems, value \in StrInputs :
          Call(gwyfile_item_set_string(CurHeap, item, value))

CallItemNewStringConst ==
    /\ CanNewItem
    /\ \E name \in ItemNames, value \in StrInputs :
          Call(gwyfile_item_new_string_const(CurHeap, name, value))

CallItemSetStringCopy ==
    /\ CanCall
    /\ \E item \in LiveItems, value \in StrInputs :
          Call(gwyfile_item_set_string_copy(CurHeap, item, value))

CallItemSetStringConst ==
    /\ CanCall
    /\ \E item \in LiveItems, value \in StrInputs :
          Call(gwyfile_item_set_string_const(CurHeap, item, value))

CallItemTakeString ==
    /\ CanCall
    /\ \E item \in LiveItems : Call(gwyfile_item_take_string(CurHeap, item))

(* The character arrays that the program passes. *)
CharArrayInputs == {s \in SeqsOf({104}, MaxArrayLen) : Len(s) > 0}

CallItemNewCharArray ==
    /\ CanNewItem
    /\ \E name \in ItemNames, value \in CharArrayInputs :
          Call(gwyfile_item_new_char_array(CurHeap, name, value, Len(value)))

CallItemSetCharArray ==
    /\ CanCall
    /\ \E item \in LiveItems, value \in CharArrayInputs :
          Call(gwyfile_item_set_char_array(CurHeap, item, value, Len(value)))

(* Types, and names with strings, that pass the checks and that do not:    *)
(* not an identifier, not UTF-8, an empty name, a sequence cut short.      *)
CheckTypes == {<<84>>, <<195, 169>>, <<200>>}
CheckTexts == {<<<<97>>, <<104>>>>, <<<<>>, <<104>>>>, <<<<200>>, <<104>>>>,
               <<<<97>>, <<195>>>>}
CallItemNewText ==
    /\ CanNewItem
    /\ \E text \in CheckTexts :
          Call(gwyfile_item_new_string(CurHeap, text[1], text[2]))

CallObjectNewTyped ==
    /\ CanNewObject
    /\ \E name \in CheckTypes,
          list \in {l \in ItemListInputs :
                       IsInjective(l) /\ \A k \in 1..Len(l) : items[l[k]].owner = NULL} :
          Call(gwyfile_object_newv(CurHeap, name, list))

(* gwyfile_check_object() of a root that the program has built or read,    *)
(* with some flags: the program calls it with no list, with an empty list  *)
(* and with a list that holds an error of an earlier call.                 *)
CheckFlags == {1, GWYFILE_CHECK_FLAG_VALIDITY, GWYFILE_CHECK_FLAG_WARNING,
               GWYFILE_CHECK_FLAG_VALIDITY + GWYFILE_CHECK_FLAG_WARNING + 1}
ErrorLists ==
    {NoErrorList, ErrorList(<<>>),
     ErrorList(<<Error(GWYFILE_ERROR_DOMAIN_VALIDITY, GWYFILE_INVALID_DOUBLE)>>)}

CallCheckObject ==
    /\ status = "run"
    /\ info.mode = "build" \/ (info.mode = "file" /\ ret.st = "ok")
    /\ \E object \in {o \in LiveObjs : objects[o].owner = NULL},
          flags \in CheckFlags :
          info' = [mode |-> "checked", object |-> object, flags |-> flags,
                   out |-> [errlist \in ErrorLists |->
                               gwyfile_check_object(CurHeap, object, flags, errlist)]]
    /\ UNCHANGED <<objects, items, status, stream, pos, frames, ret, written>>

CallItemSetObject ==
    /\ CanCall
    /\ \E item \in LiveItems, value \in LiveObjs :
          Call(gwyfile_item_set_object(CurHeap, item, value))

CallItemSetObjectArray ==
    /\ CanCall
    /\ \E item \in LiveItems, value \in ObjArrayInputs :
          Call(gwyfile_item_set_object_array(CurHeap, item, value, Len(value)))

CallItemReleaseObject ==
    /\ CanCall
    /\ \E item \in LiveItems :
          Call(gwyfile_item_release_object(CurHeap, item))

CallItemFree ==
    /\ CanCall
    /\ \E item \in LiveItems : Call(gwyfile_item_free(CurHeap, item, Fuel))

CallObjectFree ==
    /\ CanCall
    /\ \E object \in LiveObjs : Call(gwyfile_object_free(CurHeap, object, Fuel))

(* ---- reading a file, one call or return of a reading function a step ---- *)
(* malloc() finds memory: the pools are sized so that a reading function   *)
(* always finds a free slot.                                               *)
RoomForObject == FreeObjIds(CurHeap) # {}
RoomForItem == FreeItemIds(CurHeap) # {}

Top == frames[Len(frames)]
Rest == SubSeq(frames, 1, Len(frames) - 1)
Reading == status = "run" /\ ret.st = "reading" /\ frames # <<>>

(* gwyfile_set_error() and gwyfile_set_error_errno(), called by a reading  *)
(* function: assert(!*error), then the sink holds the new error.           *)
SetError(error, err) ==
    IF error # NoError THEN [st |-> "abort", err |-> error]
    ELSE [st |-> "run", err |-> err]

(* The function on top of the stack sets the error and returns NULL. *)
Fails(H, err, p) ==
    LET set == SetError(ret.err, err)
        H1 == IF H.st = "run" /\ set.st = "abort" THEN Fail(H, "abort") ELSE H
    IN  /\ Commit(H1)
        /\ pos' = p
        /\ frames' = IF H1.st = "run" THEN Rest ELSE frames
        /\ ret' = IF H1.st # "run" THEN ret
                  ELSE [ret EXCEPT !.st = IF Rest = <<>> THEN "fail" ELSE "failing",
                                   !.err = set.err]
        /\ UNCHANGED <<stream, written, info>>

(* The heap and the stack after a step that goes on reading. *)
GoesOn(H, p, fs) ==
    /\ Commit(H)
    /\ pos' = IF H.st = "run" THEN p ELSE pos
    /\ frames' = IF H.st = "run" THEN fs ELSE frames
    /\ UNCHANGED <<stream, ret, written, info>>

(* gwyfile_item_fread_internal() returns item to the loop of              *)
(* gwyfile_object_fread_internal(), which appends it to the object of the  *)
(* frame that is now on top of fs.                                        *)
ReturnsItem(H, item, p, fs) ==
    GoesOn(gwyfile_object_append(H, fs[Len(fs)].object, item), p, fs)

(* gwyfile_object_fread_internal() returns object: to the caller of        *)
(* gwyfile_fread(), to the object branch or to the object array loop of    *)
(* gwyfile_item_fread_internal().                                         *)
ReturnsObject(H, object, fs) ==
    IF fs = <<>>
    THEN /\ Commit(H)
         /\ frames' = <<>>
         /\ ret' = [ret EXCEPT !.st = "ok", !.object = object]
         /\ UNCHANGED <<stream, pos, written, info>>
    ELSE LET f == fs[Len(fs)]
             below == SubSeq(fs, 1, Len(fs) - 1)
             size == gwyfile_object_size(H.objs[object])
         IN  IF f.type = GWYFILE_ITEM_OBJECT
             THEN ReturnsItem(gwyfile_item_new_internal_object(H, f.name, object),
                              Lowest(FreeItemIds(H)), pos, below)
             ELSE IF size > f.max_size
             THEN GoesOn(Fail(H, "abort"), pos, fs)
             ELSE GoesOn(H, pos,
                         below \o <<[f EXCEPT !.oa = Append(f.oa, object),
                                              !.max_size = f.max_size - size]>>)

(* gwyfile_fread(): the magic header, then gwyfile_object_fread(), which   *)
(* calls gwyfile_object_fread_internal() with depth 0.                    *)
CallFread ==
    /\ status = "run" /\ ret.st = "idle" /\ info.mode = "file"
    /\ LET room == gwyfile_check_size(info.max_size, 4)
           magic == fread(stream, pos, 4)
           err == IF ~room.ok THEN ErrorConfinement
                  ELSE IF magic.count # 4 THEN ErrorConfinement
                  ELSE IF magic.bytes # GWYFILE_MAGIC_HEADER2
                  THEN Error(GWYFILE_ERROR_DOMAIN_DATA, GWYFILE_ERROR_MAGIC)
                  ELSE NoError
       IN  /\ pos' = IF room.ok THEN magic.pos ELSE pos
           /\ ret' = [ret EXCEPT !.st = IF err = NoError THEN "reading" ELSE "fail",
                                 !.err = err]
           /\ frames' = IF err = NoError
                        THEN <<Frame("object", "enter", room.max_size, 0, NULL)>>
                        ELSE <<>>
    /\ UNCHANGED <<objects, items, status, stream, written, info>>

(* gwyfile_object_fread_internal() up to the creation of the object. *)
ObjectFreadEnter ==
    /\ Reading /\ Top.kind = "object" /\ Top.phase = "enter"
    /\ RoomForObject
    /\ LET name == gwyfile_fread_string(stream, pos, Top.max_size)
           room == gwyfile_check_size(name.max_size, 4)
           size == fread(stream, name.pos, 4)
           new == gwyfile_object_new_internal(CurHeap, name.v)
       IN  IF TooDeep(Top.depth)
           THEN Fails(CurHeap, Error(GWYFILE_ERROR_DOMAIN_DATA,
                                     GWYFILE_ERROR_TOO_DEEP_NESTING), pos)
           ELSE IF ~name.ok THEN Fails(CurHeap, name.err, name.pos)
           ELSE IF ~room.ok THEN Fails(CurHeap, ErrorConfinement, name.pos)
           ELSE IF size.count # 4 THEN Fails(CurHeap, ErrorConfinement, size.pos)
           ELSE IF room.max_size < LeToU32(size.bytes)
           THEN Fails(CurHeap, ErrorConfinement, size.pos)
           ELSE GoesOn(new.H, size.pos,
                       Rest \o <<[Top EXCEPT !.phase = "items",
                                             !.object = new.ret,
                                             !.max_size = room.max_size,
                                             !.data_size = LeToU32(size.bytes)]>>)

(* The loop of gwyfile_object_fread_internal() calls                       *)
(* gwyfile_item_fread_internal() for the next item.                        *)
ObjectFreadItem ==
    /\ Reading /\ Top.kind = "object" /\ Top.phase = "items"
    /\ objects[Top.object].data_size < Top.data_size
    /\ frames' = Append(frames,
                        Frame("item", "enter",
                              Top.data_size - objects[Top.object].data_size,
                              Top.depth + 1, Top.object))
    /\ UNCHANGED <<objects, items, status, stream, pos, ret, written, info>>

(* The end of gwyfile_object_fread_internal(): the loop is over. *)
ObjectFreadReturn ==
    /\ Reading /\ Top.kind = "object" /\ Top.phase = "items"
    /\ objects[Top.object].data_size >= Top.data_size
    /\ RoomForItem
    /\ LET found == gwyfile_object_find_duplicate_item(CurHeap, Top.object)
       IN  IF objects[Top.object].data_size # Top.data_size
           THEN GoesOn(Fail(CurHeap, "abort"), pos, frames)
           ELSE IF found.H.st # "run" THEN GoesOn(found.H, pos, frames)
           ELSE IF found.dup
           THEN Fails(gwyfile_object_free(found.H, Top.object, Fuel),
                      Error(GWYFILE_ERROR_DOMAIN_DATA, GWYFILE_ERROR_DUPLICATE_NAME),
                      pos)
           ELSE ReturnsObject(found.H, Top.object, Rest)

(* gwyfile_item_fread_internal() up to its return or to its first call of  *)
(* gwyfile_object_fread_internal().                                        *)
ItemFreadEnter ==
    /\ Reading /\ Top.kind = "item" /\ Top.phase = "enter"
    /\ RoomForItem
    /\ \E fill \in FillBytes :
          LET head == ItemFreadHead(stream, pos, Top.max_size)
              type == head.sa[1]
              alen == head.sa[2]
              val == ItemFreadValue(type, alen, stream, head.pos, head.max_size, fill)
              called == [Top EXCEPT !.max_size = head.max_size, !.name = head.v,
                                    !.type = type, !.alen = alen]
          IN  IF ~head.ok THEN Fails(CurHeap, head.err, head.pos)
              ELSE IF type = GWYFILE_ITEM_OBJECT
              THEN GoesOn(CurHeap, head.pos,
                          Rest \o <<[called EXCEPT !.phase = "object"],
                                    Frame("object", "enter", head.max_size,
                                          Top.depth, Top.owner)>>)
              ELSE IF type = GWYFILE_ITEM_OBJECT_ARRAY
              THEN IF alen > head.max_size \div 5
                   THEN Fails(CurHeap, ErrorConfinement, head.pos)
                   ELSE GoesOn(CurHeap, head.pos,
                               Rest \o <<[called EXCEPT !.phase = "array"]>>)
              ELSE IF ~val.ok THEN Fails(CurHeap, val.err, val.pos)
              ELSE ReturnsItem(gwyfile_item_new_internal_value(
                                   CurHeap, type, head.v, alen, val.v, val.sa),
                               Lowest(FreeItemIds(CurHeap)), val.pos, Rest)

(* The object array loop of gwyfile_item_fread_internal(): the next call   *)
(* of gwyfile_object_fread_internal(), or the item when all are read.      *)
ItemFreadElement ==
    /\ Reading /\ Top.kind = "item" /\ Top.phase = "array"
    /\ RoomForItem
    /\ IF Len(Top.oa) < Top.alen
       THEN GoesOn(CurHeap, pos,
                   Append(frames, Frame("object", "enter", Top.max_size,
                                        Top.depth, Top.owner)))
       ELSE ReturnsItem(gwyfile_item_new_internal_object_array(
                            CurHeap, Top.name, Top.oa, Top.alen),
                        Lowest(FreeItemIds(CurHeap)), pos, Rest)

(* A reading function gets NULL from the one it called, frees what it has  *)
(* built and returns NULL.                                                 *)
ReturnsNull ==
    /\ status = "run" /\ ret.st = "failing" /\ frames # <<>>
    /\ LET freed == IF Top.kind = "object"
                    THEN gwyfile_object_free(CurHeap, Top.object, Fuel)
                    ELSE FreeElementsLoop(CurHeap, Top.oa, 1, Fuel)
       IN  /\ Commit(freed)
           /\ frames' = IF freed.st = "run" THEN Rest ELSE frames
           /\ ret' = IF freed.st = "run" /\ Rest = <<>>
                     THEN [ret EXCEPT !.st = "fail"] ELSE ret
    /\ UNCHANGED <<stream, pos, written, info>>

(* gwyfile_fwrite() of a tree the program has built; the file is then read. *)
CallFwrite ==
    /\ CanCall
    /\ \E object \in LiveObjs :
          LET out == gwyfile_fwrite(CurHeap, object, Unconstrained, NoError)
          IN  /\ out.ok
              /\ written' = out.bytes
              /\ stream' = out.bytes
              /\ info' = [info EXCEPT !.mode = "file", !.source = object]
    /\ UNCHANGED <<objects, items, status, pos, frames, ret>>

(* gwyfile_fwrite() of the object that gwyfile_fread() has returned. *)
CallFwriteBack ==
    /\ status = "run" /\ ret.st = "ok" /\ info.mode = "file"
    /\ LET out == gwyfile_fwrite(CurHeap, ret.object, Unconstrained, NoError)
       IN  /\ written' = out.bytes
           /\ info' = [info EXCEPT !.mode = IF out.ok THEN "rewritten" ELSE "unwritten"]
    /\ UNCHANGED <<objects, items, status, stream, pos, frames, ret>>

(* ---- the states the program starts in ---- *)
Pool(n, slot) == [k \in 1..n |-> slot]

Idle == [st |-> "idle", err |-> NoError, object |-> NULL]

(* The program holds no file: it builds trees. *)
Building ==
    [mode |-> "build", max_size |-> Unconstrained, source |-> NULL,
     valid |-> TRUE, truncated |-> FALSE, nesting |-> 0]

NoFile ==
    /\ stream = <<>> /\ pos = 0 /\ frames = <<>> /\ ret = Idle /\ written = <<>>
    /\ info = Building

Init ==
    /\ objects = Pool(MaxNodes - 1, FreeObject)
    /\ items = Pool(MaxNodes - 1, FreeItem)
    /\ status = "run"
    /\ NoFile

Next ==
    \/ CallItemNewString
    \/ CallItemNewObject
    \/ CallItemNewObjectArray
    \/ CallItemNewObject
    \/ CallItemNewObjectArray
    \/ CallObjectNew
    \/ CallObjectAdd
    \/ CallObjectRemove
    \/ CallObjectTake
    \/ CallItemSetString
    \/ CallItemSetObject
    \/ CallItemSetObjectArray
    \/ CallItemReleaseObject
    \/ CallItemFree
    \/ CallObjectFree

Spec == Init /\ [][Next]_vars

(* ---- a tree is built, written and read back ---- *)
InitRoundTrip ==
    /\ objects = Pool(2 * (MaxNodes - 1), FreeObject)
    /\ items = Pool(2 * (MaxNodes - 1), FreeItem)
    /\ status = "run"
    /\ NoFile

NextRoundTrip ==
    \/ CallItemNewBool
    \/ CallItemNewString
    \/ CallItemNewObject
    \/ CallItemNewObjectArray
    \/ CallItemNewObject
    \/ CallItemNewObjectArray
    \/ CallObjectNew
    \/ CallObjectAdd
    \/ CallFwrite
    \/ CallFread
    \/ ObjectFreadEnter
    \/ ObjectFreadItem
    \/ ObjectFreadReturn
    \/ ItemFreadEnter
    \/ ItemFreadElement

SpecRoundTrip == InitRoundTrip /\ [][NextRoundTrip]_vars

(* ---- files given to gwyfile_fread() ---- *)
WireItem(name, type, payload) == name \o <<0>> \o <<type>> \o payload
WireObject(name, body) == name \o <<0>> \o U32ToLe(Len(body)) \o body
WireFile(body) == GWYFILE_MAGIC_HEADER2 \o WireObject(<<84>>, body)

(* Type and payload of the items of the files. *)
SmallValues ==
    {<<GWYFILE_ITEM_BOOL, <<1>>>>,
     <<GWYFILE_ITEM_STRING, <<104, 105, 0>>>>,
     <<GWYFILE_ITEM_CHAR_ARRAY, U32ToLe(2) \o <<120, 121>>>>}

Values ==
    SmallValues \cup
    {<<GWYFILE_ITEM_BOOL, <<0>>>>,
     <<GWYFILE_ITEM_BOOL, <<2>>>>,
     <<GWYFILE_ITEM_CHAR, <<120>>>>,
     <<GWYFILE_ITEM_INT32, <<1, 2, 3, 4>>>>,
     <<GWYFILE_ITEM_INT64, <<1, 2, 3, 4, 5, 6, 7, 8>>>>,
     <<GWYFILE_ITEM_DOUBLE, <<0, 0, 0, 0, 0, 0, 240, 63>>>>,
     <<GWYFILE_ITEM_OBJECT, WireObject(<<84>>, <<>>)>>,
     <<GWYFILE_ITEM_OBJECT,
       WireObject(<<84>>, WireItem(<<97>>, GWYFILE_ITEM_BOOL, <<1>>))>>,
     <<GWYFILE_ITEM_INT32_ARRAY, U32ToLe(1) \o <<1, 2, 3, 4>>>>,
     <<GWYFILE_ITEM_INT64_ARRAY, U32ToLe(1) \o <<1, 2, 3, 4, 5, 6, 7, 8>>>>,
     <<GWYFILE_ITEM_DOUBLE_ARRAY, U32ToLe(1) \o <<0, 0, 0, 0, 0, 0, 240, 63>>>>,
     <<GWYFILE_ITEM_STRING_ARRAY, U32ToLe(2) \o <<0, 104, 0>>>>,
     <<GWYFILE_ITEM_OBJECT_ARRAY,
       U32ToLe(2) \o WireObject(<<84>>, <<>>)
                  \o WireObject(<<84>>, WireItem(<<97>>, GWYFILE_ITEM_BOOL, <<1>>))>>}

(* Files that hold a tree: no item, one item, two items of different names. *)
ValidFiles ==
    {WireFile(<<>>)}
    \cup {WireFile(WireItem(n, v[1], v[2])) : n \in ItemNames, v \in Values}
    \cup {WireFile(WireItem(n, v[1], v[2]) \o WireItem(m, w[1], w[2])) :
             <<n, m>> \in {nm \in ItemNames \X ItemNames : nm[1] # nm[2]},
             <<v, w>> \in SmallValues \X SmallValues}

(* Files that hold none: a name used twice, an unknown type, an array of   *)
(* no element, an object larger or smaller than its items, a wrong header. *)
(* Two well formed items of one name. *)
Twice(n) ==
    WireItem(n, GWYFILE_ITEM_BOOL, <<1>>) \o WireItem(n, GWYFILE_ITEM_BOOL, <<0>>)

(* Files in which an object holds two items of one name: the top-level     *)
(* object, the object of an object item, an element of an object array.    *)
DuplicateFiles ==
    {WireFile(WireItem(n, v[1], v[2]) \o WireItem(n, w[1], w[2])) :
         n \in ItemNames, v \in SmallValues, w \in SmallValues}
    \cup {WireFile(WireItem(<<97>>, GWYFILE_ITEM_OBJECT,
                            WireObject(<<84>>, Twice(n)))) : n \in ItemNames}
    \cup {WireFile(WireItem(<<98, 99>>, GWYFILE_ITEM_BOOL, <<1>>)
                   \o WireItem(<<97>>, GWYFILE_ITEM_OBJECT,
                               WireObject(<<84>>, Twice(<<97>>)))),
          WireFile(WireItem(<<97>>, GWYFILE_ITEM_OBJECT_ARRAY,
                            U32ToLe(1) \o WireObject(<<84>>, Twice(<<97>>))))}

(* Files in which an array has no element: an item of the top-level       *)
(* object, of each array type; an item of a nested object; an array with   *)
(* bytes behind its length.                                               *)
EmptyArrayFiles ==
    {WireFile(WireItem(<<97>>, t, U32ToLe(0))) :
         t \in {u \in 0..255 : gwyfile_item_type_is_array(u)}}
    \cup {WireFile(WireItem(<<97>>, GWYFILE_ITEM_OBJECT,
                            WireObject(<<84>>,
                                WireItem(<<97>>, GWYFILE_ITEM_INT32_ARRAY,
                                         U32ToLe(0))))),
          WireFile(WireItem(<<97>>, GWYFILE_ITEM_CHAR_ARRAY, U32ToLe(0) \o <<104>>)),
          WireFile(WireItem(<<98, 99>>, GWYFILE_ITEM_BOOL, <<1>>)
                   \o WireItem(<<97>>, GWYFILE_ITEM_STRING_ARRAY, U32ToLe(0)))}

BrokenFiles ==
    DuplicateFiles
    \cup EmptyArrayFiles
    \cup {WireFile(WireItem(<<97>>, 122, <<1>>)),
          WireFile(WireItem(<<97>>, GWYFILE_ITEM_OBJECT_ARRAY,
                            U32ToLe(2) \o WireObject(<<84>>, <<>>)
                                       \o WireObject(<<84>>, <<1, 2>>))),
          GWYFILE_MAGIC_HEADER2 \o <<84, 0>> \o U32ToLe(5)
              \o WireItem(<<97>>, GWYFILE_ITEM_BOOL, <<1>>),
          GWYFILE_MAGIC_HEADER2 \o <<84, 0>> \o U32ToLe(3)
              \o WireItem(<<97>>, GWYFILE_ITEM_BOOL, <<1>>),
          <<71, 87, 89, 79>> \o WireObject(<<84>>, <<>>)}

(* Streams that differ in their first bytes: a wrong header before a well  *)
(* formed object, wrong bytes only, fewer than four bytes, a right header. *)
HeaderFiles ==
    {<<71, 87, 89, 79>> \o WireObject(<<84>>, <<>>),
     <<80, 89, 87, 71>>,
     <<71, 87, 89>>,
     WireFile(<<>>)}

(* A file as the caller has it: whole with some max_size, or cut short. *)
Given(file, len, max_size, valid) ==
    /\ stream = SubSeq(file, 1, len)
    /\ info = [mode |-> "file", max_size |-> max_size, source |-> NULL,
               valid |-> valid, truncated |-> len < Len(file), nesting |-> 0]
    /\ pos = 0 /\ frames = <<>> /\ ret = Idle /\ written = <<>>

InitCodec ==
    /\ objects = Pool(MaxNodes, FreeObject)
    /\ items = Pool(MaxNodes, FreeItem)
    /\ status = "run"
    /\ \/ \E file \in ValidFiles, len \in 0..MaxFileLen :
             len <= Len(file) /\ Given(file, len, Unconstrained, TRUE)
       \/ \E file \in ValidFiles, max_size \in 0..MaxFileLen :
             max_size < Len(file) /\ Given(file, Len(file), max_size, TRUE)
       \/ \E file \in BrokenFiles : Given(file, Len(file), Unconstrained, FALSE)
       \/ \E file \in HeaderFiles, max_size \in 0..MaxFileLen :
             Given(file, Len(file), max_size, FALSE)

NextCodec ==
    \/ CallFread
    \/ ObjectFreadEnter
    \/ ObjectFreadItem
    \/ ObjectFreadReturn
    \/ ItemFreadEnter
    \/ ItemFreadElement
    \/ ReturnsNull
    \/ CallFwriteBack

SpecCodec == InitCodec /\ [][NextCodec]_vars

(* ---- a program that either builds a tree or reads a file: the calls    *)
(* that put items into objects and take them out, and the reading       *)
(* functions ---- *)
InitTree == Init \/ InitCodec
NextTree ==
    \/ CallItemNewString
    \/ CallItemNewObject
    \/ CallItemNewObjectArray
    \/ CallObjectNew
    \/ CallObjectAdd
    \/ CallObjectRemove
    \/ CallObjectTake
    \/ CallFread
    \/ ObjectFreadEnter
    \/ ObjectFreadItem
    \/ ObjectFreadReturn
    \/ ItemFreadEnter
    \/ ItemFreadElement
    \/ ReturnsNull

SpecTree == InitTree /\ [][NextTree]_vars

(* ---- a program that fills and empties objects of up to three items ---- *)
NextOrder ==
    \/ CallItemNewNamed
    \/ CallObjectNew
    \/ CallObjectAdd
    \/ CallObjectRemove
    \/ CallObjectTake

SpecOrder == Init /\ [][NextOrder]_vars

(* ---- a program that either lends, gives and takes back the strings of   *)
(* items, or reads a file ---- *)
NextOwned ==
    \/ CallItemNewString
    \/ CallItemNewStringConst
    \/ CallItemSetString
    \/ CallItemSetStringCopy
    \/ CallItemSetStringConst
    \/ CallItemTakeString
    \/ CallObjectNew
    \/ CallFread
    \/ ObjectFreadEnter
    \/ ObjectFreadItem
    \/ ObjectFreadReturn
    \/ ItemFreadEnter
    \/ ItemFreadElement
    \/ ReturnsNull

SpecOwned == InitTree /\ [][NextOwned]_vars

(* ---- a program that makes and sets arrays, or reads a file ---- *)
NextArrays ==
    \/ CallItemNewCharArray
    \/ CallItemSetCharArray
    \/ CallItemNewObjectArray
    \/ CallItemSetObjectArray
    \/ CallObjectNew
    \/ CallFread
    \/ ObjectFreadEnter
    \/ ObjectFreadItem
    \/ ObjectFreadReturn
    \/ ItemFreadEnter
    \/ ItemFreadElement
    \/ ReturnsNull

SpecArrays == InitTree /\ [][NextArrays]_vars

(* ---- a program that builds trees and sets the strings in them ---- *)
NextSetters ==
    \/ CallItemNewString
    \/ CallItemNewObject
    \/ CallItemNewObjectArray
    \/ CallObjectNew
    \/ CallItemSetString
    \/ CallItemSetStringCopy
    \/ CallItemSetStringConst

SpecSetters == Init /\ [][NextSetters]_vars

(* ---- a program that reads files whose objects declare a payload that    *)
(* is shorter than, as long as or longer than their items ---- *)
(* An object that declares the payload size before body. *)
WireSized(size, body) == <<84, 0>> \o U32ToLe(size) \o body

(* One item of each type, or two items, in a top-level object of every     *)
(* declared size up to one more than the items take; the same for the      *)
(* object of an object item and for each element of an object array.       *)
PayloadFiles ==
    LET one == {WireItem(<<97>>, v[1], v[2]) : v \in Values}
        two == {WireItem(<<97>>, v[1], v[2]) \o WireItem(<<98, 99>>, w[1], w[2]) :
                   <<v, w>> \in SmallValues \X SmallValues}
        inner == WireItem(<<97>>, GWYFILE_ITEM_STRING, <<104, 0>>)
    IN  UNION {{GWYFILE_MAGIC_HEADER2 \o WireSized(size, body) :
                   size \in 0..(Len(body) + 1)} : body \in one \cup two}
        \cup {WireFile(WireItem(<<97>>, GWYFILE_ITEM_OBJECT, WireSized(size, inner))) :
                 size \in 0..(Len(inner) + 1)}
        \cup {WireFile(WireItem(<<97>>, GWYFILE_ITEM_OBJECT_ARRAY,
                                U32ToLe(2) \o WireSized(first, inner)
                                           \o WireSized(second, inner))) :
                 first \in {Len(inner)}, second \in 0..(Len(inner) + 1)}
        \cup {WireFile(WireItem(<<97>>, GWYFILE_ITEM_OBJECT_ARRAY,
                                U32ToLe(2) \o WireSized(first, inner)
                                           \o WireSized(Len(inner), inner))) :
                 first \in 0..(Len(inner) + 1)}

InitPayload ==
    /\ objects = Pool(MaxNodes, FreeObject)
    /\ items = Pool(MaxNodes, FreeItem)
    /\ status = "run"
    /\ \E file \in PayloadFiles : Given(file, Len(file), Unconstrained, FALSE)

NextPayload ==
    \/ CallFread
    \/ ObjectFreadEnter
    \/ ObjectFreadItem
    \/ ObjectFreadReturn
    \/ ItemFreadEnter
    \/ ItemFreadElement
    \/ ReturnsNull

SpecPayload == InitPayload /\ [][NextPayload]_vars

(* ---- a program that calls gwyfile_fread_string() on streams of any      *)
(* length, followed from the call or from a later pass of its loop ---- *)
StringBudgets ==
    {Big(0, 0), Big(0, 1), Big(0, 2), Big(0, 15), Big(0, 16), Big(0, 17), Big(0, 32),
     Big(0, 33), Big(1, 0), Big(32767, 65535), Big(32768, 0), Big(32768, 1),
     Big(65535, 65535)}

(* The buffer sizes of the loop: 16 doubled k times, or max_size if that   *)
(* is less.                                                                *)
BufferSize(k, max_size) ==
    gwyfile_min(IF k < 12 THEN Big(0, 16 * 2^k) ELSE Big(2^(k - 12), 0), max_size)

InString(len, size, max_size, passes) ==
    info = [mode |-> "string", len |-> len, size |-> size, max_size |-> max_size,
            passes |-> passes, c |-> 0]

(* At the call, or at the head of the loop with the buffer grown k times   *)
(* and full, or with room for one character more.                          *)
InitString ==
    /\ objects = Pool(MaxNodes - 1, FreeObject)
    /\ items = Pool(MaxNodes - 1, FreeItem)
    /\ status = "run"
    /\ stream = <<>> /\ pos = 0 /\ frames = <<>> /\ written = <<>>
    /\ \E max_size \in StringBudgets :
          \/ ret = Idle /\ InString(Big(0, 0), Big(0, 0), max_size, 0)
          \/ /\ ret = [Idle EXCEPT !.st = "reading"]
             /\ \E k \in 0..27, room \in 0..1 :
                   LET size == BufferSize(k, max_size)
                       before == IF k = 0 THEN Big(0, 0) ELSE BufferSize(k - 1, max_size)
                       len == BigMinus(size, Big(0, room))
                   IN  /\ BigLess(before, len)
                       /\ size.hi <= 32768
                       /\ InString(len, size, max_size, 0)

(* gwyfile_fread_string() up to its loop. *)
CallFreadString ==
    /\ status = "run" /\ info.mode = "string" /\ ret.st = "idle"
    /\ ret' = IF info.max_size = Big(0, 0)
              THEN [ret EXCEPT !.st = "fail", !.err = ErrorConfinement]
              ELSE [ret EXCEPT !.st = "reading"]
    /\ UNCHANGED <<objects, items, status, stream, pos, frames, written, info>>

(* One pass of the loop: fgetc() finds the stream at its end, a nul or     *)
(* another character.                                                      *)
FreadStringPass ==
    /\ status = "run" /\ info.mode = "string" /\ ret.st = "reading"
    /\ info.passes < MaxPasses
    /\ \E c \in {EOF, 0, 104} :
          LET pass == fread_string_pass(info.len, info.size, info.max_size, c)
          IN  /\ ret' = [ret EXCEPT !.st = pass.st, !.err = pass.err]
              /\ info' = IF pass.st = "reading"
                         THEN [info EXCEPT !.len = pass.len, !.size = pass.size,
                                           !.passes = @ + 1, !.c = c]
                         ELSE IF pass.st = "ok"
                         THEN [info EXCEPT !.max_size = pass.max_size,
                                           !.passes = @ + 1, !.c = c]
                         ELSE [info EXCEPT !.passes = @ + 1, !.c = c]
    /\ UNCHANGED <<objects, items, status, stream, pos, frames, written>>

NextString ==
    \/ CallFreadString
    \/ FreadStringPass

SpecString == InitString /\ [][NextString]_vars

(* ---- a program that reads a file and writes the tree to a stream that   *)
(* takes some bytes and then fails, the error sink NULL before each call   *)
(* ---- *)
CallFwriteBackTo ==
    /\ status = "run" /\ ret.st = "ok" /\ info.mode = "file"
    /\ \E room \in 0..MaxFileLen :
          LET out == gwyfile_fwrite(CurHeap, ret.object, room, NoError)
          IN  /\ written' = out.bytes
              /\ status' = out.st
              /\ info' = [mode |-> "wrote", room |-> room, ok |-> out.ok,
                          err |-> out.err]
    /\ UNCHANGED <<objects, items, stream, pos, frames, ret>>

NextErrors ==
    \/ CallFread
    \/ ObjectFreadEnter
    \/ ObjectFreadItem
    \/ ObjectFreadReturn
    \/ ItemFreadEnter
    \/ ItemFreadElement
    \/ ReturnsNull
    \/ CallFwriteBackTo

SpecErrors == InitCodec /\ [][NextErrors]_vars

(* ---- a program that builds a tree or reads a file, and checks it ---- *)
CheckFiles ==
    {WireFile(WireItem(<<97>>, GWYFILE_ITEM_STRING_ARRAY,
                       U32ToLe(2) \o <<104, 0, 200, 0>>)),
     WireFile(WireItem(<<97>>, GWYFILE_ITEM_STRING_ARRAY,
                       U32ToLe(2) \o <<104, 0, 0>>)),
     WireFile(WireItem(<<97>>, GWYFILE_ITEM_DOUBLE_ARRAY,
                       U32ToLe(2) \o <<0, 0, 0, 0, 0, 0, 240, 63>>
                                  \o <<0, 0, 0, 0, 0, 0, 248, 255>>)),
     WireFile(WireItem(<<97>>, GWYFILE_ITEM_DOUBLE_ARRAY,
                       U32ToLe(1) \o <<0, 0, 0, 0, 0, 0, 240, 63>>)),
     WireFile(WireItem(<<97>>, GWYFILE_ITEM_DOUBLE, <<0, 0, 0, 0, 0, 0, 240, 127>>)
              \o WireItem(<<98, 99>>, GWYFILE_ITEM_BOOL, <<1>>)),
     WireFile(WireItem(<<>>, GWYFILE_ITEM_BOOL, <<1>>)),
     WireFile(WireItem(<<97>>, GWYFILE_ITEM_OBJECT,
                       WireObject(<<84>>,
                           WireItem(<<98, 99>>, GWYFILE_ITEM_STRING, <<200, 0>>)))),
     WireFile(WireItem(<<97>>, GWYFILE_ITEM_OBJECT_ARRAY,
                       U32ToLe(2) \o WireObject(<<84>>, <<>>)
                                  \o WireObject(<<49>>, <<>>))),
     WireFile(WireItem(<<97>>, GWYFILE_ITEM_OBJECT, WireObject(<<84>>, Twice(<<97>>))))}

InitCheck ==
    \/ Init
    \/ /\ objects = Pool(MaxNodes, FreeObject)
       /\ items = Pool(MaxNodes, FreeItem)
       /\ status = "run"
       /\ \E file \in CheckFiles : Given(file, Len(file), Unconstrained, TRUE)

NextCheck ==
    \/ CallItemNewText
    \/ CallItemNewObject
    \/ CallItemNewObjectArray
    \/ CallObjectNewTyped
    \/ CallFread
    \/ ObjectFreadEnter
    \/ ObjectFreadItem
    \/ ObjectFreadReturn
    \/ ItemFreadEnter
    \/ ItemFreadElement
    \/ ReturnsNull
    \/ CallCheckObject

SpecCheck == InitCheck /\ [][NextCheck]_vars

(* ---- objects about 4 GB large ---- *)
(* gwyfile_object_fwrite() of an object whose data_size is hi * 65536 + lo *)
(* and whose name has name_len characters: sizes on both sides of 2^32,    *)
(* which only an object holding gigabytes of array data has, so the        *)
(* function is applied to the sizes and not to a tree.                    *)
LargeSizesHi == {0, 65535, 65536}
LargeSizesLo == {0} \cup (65527..65535)
NameLengths == 0..3

InitSize ==
    /\ objects = Pool(MaxNodes - 1, FreeObject)
    /\ items = Pool(MaxNodes - 1, FreeItem)
    /\ status = "run"
    /\ stream = <<>> /\ pos = 0 /\ frames = <<>> /\ ret = Idle /\ written = <<>>
    /\ \E hi \in LargeSizesHi, lo \in LargeSizesLo, name_len \in NameLengths :
          info = [mode |-> "size", hi |-> hi, lo |-> lo, name_len |-> name_len]

(* The head of gwyfile_object_fwrite(): the size test and its error. *)
CallObjectFwriteSized ==
    /\ status = "run" /\ ret.st = "idle" /\ info.mode = "size"
    /\ ret' = IF ObjectSizeTooLarge(info.hi, info.lo, info.name_len)
              THEN [ret EXCEPT !.st = "fail",
                               !.err = Error(GWYFILE_ERROR_DOMAIN_DATA,
                                             GWYFILE_ERROR_OBJECT_SIZE)]
              ELSE [ret EXCEPT !.st = "ok"]
    /\ UNCHANGED <<objects, items, status, stream, pos, frames, written, info>>

SpecSize == InitSize /\ [][CallObjectFwriteSized]_vars

(* ---- a program that writes a tree whose sizes are about 2^32: of each    *)
(* object on the way from the root to the innermost object the name       *)
(* length and data_size (as hi * 65536 + lo), and of the item that holds   *)
(* the next object its name length and whether it is an object array ---- *)
BigPlus(a, n) == Big(a.hi + (a.lo + n) \div 65536, (a.lo + n) % 65536)

(* gwyfile_object_size() and gwyfile_item_size() of large sizes. *)
BigObjectSize(name_len, data_size) == BigPlus(data_size, name_len + 1 + 4)
BigItemSize(name_len, data_size) == BigPlus(data_size, name_len + 1 + 1)

(* The chain with one more object around it, of the data_size that the     *)
(* size invariant gives an object whose only item holds the chain's first  *)
(* object, alone or as the only element of an array.                       *)
Enclose(chain, name_len, item_name_len, array) ==
    LET inner == chain[1]
        held == BigObjectSize(inner.name_len, inner.data_size)
        item == BigItemSize(item_name_len, IF array THEN BigPlus(held, 4) ELSE held)
    IN  <<[name_len |-> name_len, data_size |-> item,
           item_name_len |-> item_name_len, array |-> array]>> \o chain

WrapNameLengths == {0, 3}
WrapItemNameLengths == {0, 2}

Chains ==
    LET one == {<<[name_len |-> name_len, data_size |-> Big(hi, lo),
                   item_name_len |-> 0, array |-> FALSE]>> :
                   name_len \in NameLengths, hi \in LargeSizesHi, lo \in LargeSizesLo}
        two == {Enclose(chain, n, i, a) :
                   chain \in one, n \in WrapNameLengths, i \in WrapItemNameLengths,
                   a \in BOOLEAN}
        three == {Enclose(chain, n, i, a) :
                     chain \in two, n \in WrapNameLengths, i \in WrapItemNameLengths,
                     a \in BOOLEAN}
    IN  two \cup three

InitNested ==
    /\ objects = Pool(MaxNodes - 1, FreeObject)
    /\ items = Pool(MaxNodes - 1, FreeItem)
    /\ status = "run"
    /\ stream = <<>> /\ pos = 0 /\ frames = <<>> /\ ret = Idle /\ written = <<>>
    /\ \E chain \in Chains : info = [mode |-> "nested", chain |-> chain, before |-> 0]

(* gwyfile_object_fwrite() of the k-th object of the chain, before bytes   *)
(* having gone to the stream: the size test, the name and the size field,  *)
(* and gwyfile_item_fwrite() of the item, which writes its name, its type  *)
(* and for an array the length before it calls gwyfile_object_fwrite().    *)
RECURSIVE ObjectFwriteNested(_, _, _)
ObjectFwriteNested(chain, k, before) ==
    LET ob == chain[k]
    IN  IF ObjectSizeTooLarge(ob.data_size.hi, ob.data_size.lo, ob.name_len)
        THEN [ok |-> FALSE, before |-> before,
              err |-> Error(GWYFILE_ERROR_DOMAIN_DATA, GWYFILE_ERROR_OBJECT_SIZE)]
        ELSE IF k = Len(chain) THEN [ok |-> TRUE, before |-> before, err |-> NoError]
        ELSE ObjectFwriteNested(chain, k + 1,
                 before + ob.name_len + 1 + 4 + ob.item_name_len + 1 + 1
                        + (IF ob.array THEN 4 ELSE 0))

CallObjectFwriteNested ==
    /\ status = "run" /\ ret.st = "idle" /\ info.mode = "nested"
    /\ LET out == ObjectFwriteNested(info.chain, 1, 0)
       IN  /\ ret' = [ret EXCEPT !.st = IF out.ok THEN "ok" ELSE "fail", !.err = out.err]
           /\ info' = [info EXCEPT !.before = out.before]
    /\ UNCHANGED <<objects, items, status, stream, pos, frames, written>>

SpecNested == InitNested /\ [][CallObjectFwriteNested]_vars

(* ---- files of deeply nested objects ---- *)
(* Byte i of a file of n nested objects, each but the innermost holding    *)
(* one item that holds the next: an object item (w = 9 bytes a level) or   *)
(* an object array of one element (w = 13).                                *)
ChainByte(i, n, w) ==
    IF i <= 4 THEN GWYFILE_MAGIC_HEADER2[i]
    ELSE LET level == (i - 5) \div w + 1
             r == (i - 5) % w
         IN  IF r = 0 THEN 84
             ELSE IF r = 1 THEN 0
             ELSE IF r <= 5 THEN U32ToLe((n - level) * w)[r - 1]
             ELSE IF r = 6 THEN 97
             ELSE IF r = 7 THEN 0
             ELSE IF r = 8 THEN IF w = 9 THEN GWYFILE_ITEM_OBJECT
                                ELSE GWYFILE_ITEM_OBJECT_ARRAY
             ELSE U32ToLe(1)[r - 8]

Chain(n, w) == [i \in 1..(4 + 6 + (n - 1) * w) |-> ChainByte(i, n, w)]

ChainLengths ==
    1..MaxExtraDepth
    \cup (GWYFILE_MAX_DEPTH - MaxExtraDepth)..(GWYFILE_MAX_DEPTH + MaxExtraDepth)

InitDepth ==
    /\ objects = Pool(GWYFILE_MAX_DEPTH + MaxExtraDepth, FreeObject)
    /\ items = Pool(GWYFILE_MAX_DEPTH + MaxExtraDepth, FreeItem)
    /\ status = "run"
    /\ \E n \in ChainLengths, w \in {9, 13} :
          /\ stream = Chain(n, w)
          /\ info = [mode |-> "file", max_size |-> Unconstrained, source |-> NULL,
                     valid |-> TRUE, truncated |-> FALSE, nesting |-> n]
    /\ pos = 0 /\ frames = <<>> /\ ret = Idle /\ written = <<>>

NextDepth ==
    \/ CallFread
    \/ ObjectFreadEnter
    \/ ObjectFreadItem
    \/ ObjectFreadReturn
    \/ ItemFreadEnter
    \/ ItemFreadElement
    \/ ReturnsNull

SpecDepth == InitDepth /\ [][NextDepth]_vars

(* ---- properties of the tree ---- *)
ItemsOf(o) == {objects[o].items[k] : k \in 1..Len(objects[o].items)}
ElementsOf(i) == {items[i].oa[k] : k \in 1..Len(items[i].oa)}
HoldsObjects(i) ==
    items[i].type \in {GWYFILE_ITEM_OBJECT, GWYFILE_ITEM_OBJECT_ARRAY}

(* No pointer of o's item list points to freed memory. *)
ListIsLive(o) == ItemsOf(o) \subseteq LiveItems
ElementsAreLive(i) == ElementsOf(i) \subseteq LiveObjs

ItemSizeSum(o) ==
    SumSeq([k \in 1..Len(objects[o].items) |->
               gwyfile_item_size(items[objects[o].items[k]])])

ElementSizeSum(i) ==
    SumSeq([k \in 1..Len(items[i].oa) |-> gwyfile_object_size(objects[items[i].oa[k]])])

(* C1: while the process runs, the data_size of every object is the sum of *)
(* gwyfile_item_size over its item list, and the data_size of every object *)
(* item is gwyfile_object_size of the object it wraps.                     *)
C1_SizeInvariant ==
    status = "run" =>
        /\ \A o \in LiveObjs :
              ListIsLive(o) => objects[o].data_size = ItemSizeSum(o)
        /\ \A i \in LiveItems :
              (items[i].type = GWYFILE_ITEM_OBJECT /\ ElementsAreLive(i)) =>
                  items[i].data_size = gwyfile_object_size(objects[items[i].oa[1]])

(* C2: while the process runs, the data_size of every object-array item is *)
(* 4 plus the sum of gwyfile_object_size over its elements.                *)
C2_ObjectArraySize ==
    status = "run" =>
        \A i \in LiveItems :
            (items[i].type = GWYFILE_ITEM_OBJECT_ARRAY /\ ElementsAreLive(i)) =>
                items[i].data_size = 4 + ElementSizeSum(i)

(* C3: while the process runs, the owner links are the containment: every  *)
(* item of an item list is owned by that object, every object held by an   *)
(* object or object-array item is owned by that item, and a node that has  *)
(* an owner is held by it.                                                 *)
C3_OwnerLinks ==
    status = "run" =>
        /\ \A o \in LiveObjs : \A i \in ItemsOf(o) \cap LiveItems :
              items[i].owner = o
        /\ \A i \in LiveItems : HoldsObjects(i) =>
              \A o \in ElementsOf(i) \cap LiveObjs : objects[o].owner = i
        /\ \A i \in LiveItems : items[i].owner # NULL =>
              items[i].owner \in LiveObjs /\ i \in ItemsOf(items[i].owner)
        /\ \A o \in LiveObjs : objects[o].owner # NULL =>
              /\ objects[o].owner \in LiveItems
              /\ HoldsObjects(objects[o].owner)
              /\ o \in ElementsOf(objects[o].owner)

(* The node above a node: an object is "o", an item is "i". *)
OwnerOf(n) ==
    IF n.kind = "o"
    THEN [kind |-> "i", id |-> objects[n.id].owner]
    ELSE [kind |-> "o", id |-> items[n.id].owner]

RECURSIVE ReachesRoot(_, _)
ReachesRoot(n, fuel) ==
    IF n.id = NULL THEN TRUE
    ELSE IF fuel = 0 THEN FALSE
    ELSE ReachesRoot(OwnerOf(n), fuel - 1)

(* C4: in every state, walking the owner links up from any node reaches a  *)
(* node with no owner: no call has attached an item below an object that   *)
(* the item contains.                                                      *)
C4_NoOwnershipCycle ==
    /\ \A o \in LiveObjs : ReachesRoot([kind |-> "o", id |-> o], Fuel)
    /\ \A i \in LiveItems : ReachesRoot([kind |-> "i", id |-> i], Fuel)

(* The objects that a reading function is still filling or freeing. *)
BeingRead == {frames[k].object : k \in 1..Len(frames)}

(* C5: while the process runs, the names of the items in the item list of  *)
(* every object, built by the calls or returned by the reading functions,  *)
(* are pairwise distinct.                                                  *)
C5_UniqueNames ==
    status = "run" =>
        \A o \in LiveObjs \ BeingRead : ListIsLive(o) =>
            \A j, k \in 1..Len(objects[o].items) :
                j # k => ~gwyfile_strequal(items[objects[o].items[j]].name,
                                           items[objects[o].items[k]].name)

(* An object holds two items, and the program holds a third, unattached    *)
(* item whose name is already used in that object.                         *)
C5_Witness ==
    /\ status = "run"
    /\ \E o \in LiveObjs :
          /\ Len(objects[o].items) >= 2
          /\ ListIsLive(o)
          /\ \E i \in LiveItems, j \in ItemsOf(o) :
                /\ items[i].owner = NULL
                /\ gwyfile_strequal(items[i].name, items[j].name)

(* ---- properties of the files ---- *)
RECURSIVE SameObject(_, _, _)
RECURSIVE SameItem(_, _, _)

(* Objects a and b have the same name and the same items in the same order. *)
SameObject(a, b, fuel) ==
    /\ fuel > 0
    /\ a \in LiveObjs /\ b \in LiveObjs
    /\ objects[a].name = objects[b].name
    /\ Len(objects[a].items) = Len(objects[b].items)
    /\ \A k \in 1..Len(objects[a].items) :
          SameItem(objects[a].items[k], objects[b].items[k], fuel - 1)

(* Items i and j have the same name, type, array length and value. *)
SameItem(i, j, fuel) ==
    /\ fuel > 0
    /\ i \in LiveItems /\ j \in LiveItems
    /\ items[i].name = items[j].name
    /\ items[i].type = items[j].type
    /\ items[i].array_length = items[j].array_length
    /\ items[i].v = items[j].v
    /\ items[i].sa = items[j].sa
    /\ Len(items[i].oa) = Len(items[j].oa)
    /\ \A k \in 1..Len(items[i].oa) :
          SameObject(items[i].oa[k], items[j].oa[k], fuel - 1)

ReadIsOver == ret.st \in {"failing", "fail", "ok"}

(* C6: when the file that gwyfile_fwrite() has written of a tree built by  *)
(* the calls is read back, gwyfile_fread() succeeds and returns a tree     *)
(* with the same names and, in each object, the same items in the same     *)
(* order.                                                                  *)
C6_RoundTrip ==
    (info.source # NULL /\ ReadIsOver) =>
        ret.st = "ok" /\ SameObject(info.source, ret.object, Fuel)

(* C7: when a file that gwyfile_fread() has decoded is written again with  *)
(* gwyfile_fwrite(), the bytes written are the bytes read.                 *)
C7_SameBytes ==
    info.mode \in {"rewritten", "unwritten"} =>
        info.mode = "rewritten" /\ written = stream

(* C8: gwyfile_fread() of a proper prefix of a valid file returns NULL     *)
(* with the error DATA / CONFINEMENT.                                      *)
C8_TruncatedFails ==
    (info.valid /\ info.truncated /\ ReadIsOver) =>
        ret.st # "ok" /\ ret.err = ErrorConfinement

(* C9: the reading functions never consume more than max_size bytes of    *)
(* the stream.                                                            *)
C9_WithinMaxSize ==
    info.mode # "build" => pos <= info.max_size

ObjectFramesUpTo(k) == {j \in 1..k : frames[j].kind = "object"}

(* C10: each object being read has a depth one above that of the object   *)
(* around it, starting at 0; a file of nested objects is decoded, into as  *)
(* many objects as it nests, when it nests at most GWYFILE_MAX_DEPTH, and  *)
(* fails with TOO_DEEP_NESTING when it nests more.                         *)
C10_DepthLimit ==
    /\ \A k \in 1..Len(frames) :
          frames[k].kind = "object" =>
              frames[k].depth = Cardinality(ObjectFramesUpTo(k)) - 1
    /\ ret.st = "ok" =>
          /\ info.nesting <= GWYFILE_MAX_DEPTH
          /\ Cardinality(LiveObjs) = info.nesting
    /\ ret.st \in {"failing", "fail"} =>
          /\ info.nesting > GWYFILE_MAX_DEPTH
          /\ ret.err = Error(GWYFILE_ERROR_DOMAIN_DATA, GWYFILE_ERROR_TOO_DEEP_NESTING)

(* A file of GWYFILE_MAX_DEPTH + 1 nested objects has been refused for     *)
(* its nesting.                                                            *)
C10_Witness ==
    /\ ret.st = "fail"
    /\ ret.err.code = GWYFILE_ERROR_TOO_DEEP_NESTING
    /\ info.nesting = GWYFILE_MAX_DEPTH + 1

(* C11: when an object of the file, at any level, holds two items of one   *)
(* name, gwyfile_fread() returns NULL with DATA / DUPLICATE_NAME.          *)
C11_DuplicateName ==
    (stream \in DuplicateFiles /\ ReadIsOver) =>
        /\ ret.st # "ok"
        /\ ret.err = Error(GWYFILE_ERROR_DOMAIN_DATA, GWYFILE_ERROR_DUPLICATE_NAME)

(* The read of a file whose duplicate is inside an element of an object    *)
(* array has returned NULL with DUPLICATE_NAME.                            *)
C11_Witness ==
    /\ stream = WireFile(WireItem(<<97>>, GWYFILE_ITEM_OBJECT_ARRAY,
                                  U32ToLe(1) \o WireObject(<<84>>, Twice(<<97>>))))
    /\ ret.st = "fail"
    /\ ret.object = NULL
    /\ ret.err.code = GWYFILE_ERROR_DUPLICATE_NAME

(* ---- properties of single calls: what a call would do in the state ---- *)
Range(s) == {s[k] : k \in 1..Len(s)}
Precedes(s, x, y) == \E j, k \in 1..Len(s) : j < k /\ s[j] = x /\ s[k] = y

(* The names of old that are still in new come in the same order, and the  *)
(* names that are only in new come after them.                             *)
KeepsOrder(old, new) ==
    /\ \A x, y \in Range(old) \cap Range(new) : Precedes(old, x, y) => Precedes(new, x, y)
    /\ \A x \in Range(old) \cap Range(new), y \in Range(new) \ Range(old) :
          Precedes(new, x, y)

NamesAfter(H, object) ==
    IF H.st = "run" THEN gwyfile_object_item_names(H, object)
    ELSE gwyfile_object_item_names(CurHeap, object)

(* C12: gwyfile_object_add(), gwyfile_object_remove() and                  *)
(* gwyfile_object_take() keep the order of enumeration: whatever the call, *)
(* the items still present are enumerated in the order they had, and an    *)
(* added item is enumerated last.                                          *)
C12_InsertionOrder ==
    status = "run" =>
        \A o \in LiveObjs : ListIsLive(o) =>
            LET before == gwyfile_object_item_names(CurHeap, o)
            IN  /\ \A name \in OrderNames :
                      /\ KeepsOrder(before, NamesAfter(gwyfile_object_remove(CurHeap, o, name), o))
                      /\ KeepsOrder(before, NamesAfter(gwyfile_object_take(CurHeap, o, name), o))
                /\ \A i \in LiveItems : items[i].owner = NULL =>
                      KeepsOrder(before, NamesAfter(gwyfile_object_add(CurHeap, o, i), o))

(* C13: the scan for a repeated name keeps the order of the items: the     *)
(* object that gwyfile_object_newv() returns holds the items in the order  *)
(* of the argument, and the object that gwyfile_fread() returns holds them *)
(* in the order of the file.                                               *)
C13_ScanKeepsOrder ==
    /\ CanNewObject =>
          \A list \in ItemListInputs :
              (IsInjective(list) /\ \A k \in 1..Len(list) : items[list[k]].owner = NULL) =>
                  LET made == gwyfile_object_newv(CurHeap, <<84>>, list)
                      object == gwyfile_object_new_internal(CurHeap, <<84>>).ret
                  IN  made.st = "run" => made.objs[object].items = list
    /\ (status = "run" /\ ret.st = "ok") =>
          \A n, m \in ItemNames, v, w \in SmallValues :
              stream = WireFile(WireItem(n, v[1], v[2]) \o WireItem(m, w[1], w[2])) =>
                  gwyfile_object_item_names(CurHeap, ret.object) = <<n, m>>

(* C14: while the process runs, no item is in the item lists of two        *)
(* objects, and gwyfile_object_add() and gwyfile_object_newv() abort when   *)
(* they are given an item that has an owner.                               *)
C14_SingleOwner ==
    status = "run" =>
        \A i \in LiveItems :
            /\ Cardinality({o \in LiveObjs : i \in Range(objects[o].items)}) <= 1
            /\ items[i].owner # NULL =>
                  /\ \A o \in LiveObjs :
                        gwyfile_object_add(CurHeap, o, i).st = "abort"
                  /\ CanNewObject =>
                        gwyfile_object_newv(CurHeap, <<84>>, <<i>>).st = "abort"

(* The nodes above node n: its owner, the owner of its owner, and so on. *)
RECURSIVE Above(_, _)
Above(n, fuel) ==
    LET up == OwnerOf(n)
    IN  IF up.id = NULL \/ fuel = 0 THEN {} ELSE {up} \cup Above(up, fuel - 1)

AboveItem(i) == Above([kind |-> "i", id |-> i], Fuel)
AboveObject(o) == Above([kind |-> "o", id |-> o], Fuel)

DataSize(H, n) ==
    IF n.kind = "o" THEN H.objs[n.id].data_size ELSE H.its[n.id].data_size

(* C15: gwyfile_item_set_object(), called on an object item with an object *)
(* that has no owner, returns; the object that the item held is destroyed, *)
(* the item holds value, value's owner is the item, the item's data_size   *)
(* is the size of value and every node above the item has grown by the     *)
(* difference.                                                             *)
C15_SetObject ==
    status = "run" =>
        \A item \in LiveItems, value \in LiveObjs :
            (/\ items[item].type = GWYFILE_ITEM_OBJECT
             /\ Len(items[item].oa) = 1
             /\ objects[value].owner = NULL
             /\ [kind |-> "o", id |-> value] \notin AboveItem(item)) =>
                LET done == gwyfile_item_set_object(CurHeap, item, value)
                    delta == gwyfile_object_size(objects[value]) - items[item].data_size
                IN  /\ done.st = "run"
                    /\ ~LiveObj(done, items[item].oa[1])
                    /\ done.its[item].oa = <<value>>
                    /\ done.objs[value].owner = item
                    /\ done.its[item].data_size = gwyfile_object_size(objects[value])
                    /\ \A a \in AboveItem(item) :
                          DataSize(done, a) = DataSize(CurHeap, a) + delta

ItemTypes == {GWYFILE_ITEM_BOOL, GWYFILE_ITEM_STRING, GWYFILE_ITEM_OBJECT}

(* C16: a call that reports failure or not-found leaves the whole heap as  *)
(* it was: gwyfile_object_add() of an item whose name is in the object,    *)
(* gwyfile_object_remove(), gwyfile_object_take() and                      *)
(* gwyfile_object_take_with_type() of a name, or a name and type, that is  *)
(* not in the object.                                                      *)
C16_FailureChangesNothing ==
    status = "run" =>
        \A o \in LiveObjs : ListIsLive(o) =>
            /\ \A i \in LiveItems :
                  (items[i].owner = NULL /\ ~gwyfile_object_add_returns(CurHeap, o, i)) =>
                      gwyfile_object_add(CurHeap, o, i) = CurHeap
            /\ \A name \in OrderNames :
                  /\ gwyfile_object_get(CurHeap, o, name) = NULL =>
                        /\ gwyfile_object_remove(CurHeap, o, name) = CurHeap
                        /\ gwyfile_object_take(CurHeap, o, name) = CurHeap
                  /\ \A type \in ItemTypes :
                        gwyfile_object_get_with_type(CurHeap, o, name, type) = NULL =>
                            gwyfile_object_take_with_type(CurHeap, o, name, type) = CurHeap

(* An object inside another holds a string item called "a" and nothing     *)
(* called "bc"; a root item is called "a" too: adding it fails, and taking *)
(* "bc", or "a" as a bool, finds nothing.                                  *)
C16_Witness ==
    /\ status = "run"
    /\ \E o \in LiveObjs, i \in LiveItems :
          /\ objects[o].owner # NULL
          /\ items[i].owner = NULL
          /\ ~gwyfile_object_add_returns(CurHeap, o, i)
          /\ gwyfile_object_get(CurHeap, o, <<98, 99>>) = NULL
          /\ gwyfile_object_get(CurHeap, o, <<97>>) # NULL
          /\ gwyfile_object_get_with_type(CurHeap, o, <<97>>, GWYFILE_ITEM_BOOL) = NULL

(* What gwyfile_object_remove() and gwyfile_object_take() of item, found   *)
(* in object o, leave in the heap done: the list of o without the item and *)
(* o and every node above it smaller by the size of the item.              *)
Removed(done, o, item) ==
    /\ done.st = "run"
    /\ Len(done.objs[o].items) = Len(objects[o].items) - 1
    /\ Range(done.objs[o].items) = Range(objects[o].items) \ {item}
    /\ \A a \in {[kind |-> "o", id |-> o]} \cup AboveObject(o) :
          DataSize(done, a) = DataSize(CurHeap, a) - gwyfile_item_size(items[item])

(* C17: gwyfile_object_take() of a name that is in the object returns the  *)
(* item of that name, now without owner and otherwise as it was, takes     *)
(* that item alone out of the list and makes the object and every node     *)
(* above it smaller by the size of the item; gwyfile_object_remove() does   *)
(* the same to the object and destroys the item.                           *)
C17_TakeAndRemove ==
    status = "run" =>
        \A o \in LiveObjs, name \in OrderNames :
            LET item == gwyfile_object_get(CurHeap, o, name)
                taken == gwyfile_object_take(CurHeap, o, name)
                removed == gwyfile_object_remove(CurHeap, o, name)
            IN  (ListIsLive(o) /\ item # NULL) =>
                    /\ gwyfile_strequal(items[item].name, name)
                    /\ Removed(taken, o, item)
                    /\ taken.its[item] = [items[item] EXCEPT !.owner = NULL]
                    /\ Removed(removed, o, item)
                    /\ ~LiveItem(removed, item)

(* The item that a constructor called in the state makes. *)
NewItem == Lowest(FreeItemIds(CurHeap))

(* C18: data_owned is true after gwyfile_item_new_string(), _new_string_copy(), *)
(* _set_string(), _set_string_copy() and in every item that the reading    *)
(* functions have made; it is false after _new_string_const(),             *)
(* _set_string_const() and _take_string(); _take_string() aborts on an     *)
(* item whose flag is false, so also when called twice in a row.           *)
C18_DataOwned ==
    status = "run" =>
        /\ CanNewItem =>
              \A name \in ItemNames, value \in StrInputs :
                  /\ gwyfile_item_new_string(CurHeap, name, value).its[NewItem].data_owned
                  /\ gwyfile_item_new_string_copy(CurHeap, name, value).its[NewItem].data_owned
                  /\ ~gwyfile_item_new_string_const(CurHeap, name, value).its[NewItem].data_owned
        /\ \A item \in LiveItems : items[item].type = GWYFILE_ITEM_STRING =>
              LET taken == gwyfile_item_take_string(CurHeap, item)
              IN  /\ \A value \in StrInputs :
                        /\ gwyfile_item_set_string(CurHeap, item, value).its[item].data_owned
                        /\ gwyfile_item_set_string_copy(CurHeap, item, value).its[item].data_owned
                        /\ ~gwyfile_item_set_string_const(CurHeap, item, value).its[item].data_owned
                  /\ items[item].data_owned =>
                        /\ taken.st = "run"
                        /\ ~taken.its[item].data_owned
                        /\ gwyfile_item_take_string(taken, item).st = "abort"
                  /\ ~items[item].data_owned => taken.st = "abort"
        /\ info.mode # "build" => \A item \in LiveItems : items[item].data_owned

(* A string item inside an object has lent its string: it was taken, or    *)
(* set or made from a string of the caller, and taking it now aborts.      *)
C18_Witness ==
    /\ status = "run"
    /\ \E item \in LiveItems :
          /\ items[item].type = GWYFILE_ITEM_STRING
          /\ items[item].owner # NULL
          /\ ~items[item].data_owned
          /\ gwyfile_item_take_string(CurHeap, item).st = "abort"

(* C19: gwyfile_object_fwrite() fails with OBJECT_SIZE exactly when the     *)
(* payload of the object, its data_size, exceeds 0xFFFFFFFF: an object      *)
(* whose payload is at most 0xFFFFFFFF is written, whatever the length of   *)
(* its name.                                                               *)
C19_ObjectSize ==
    info.mode = "size" /\ ret.st # "idle"
    => ((ret.st = "fail" /\ ret.err = Error(GWYFILE_ERROR_DOMAIN_DATA,
                                            GWYFILE_ERROR_OBJECT_SIZE))
        <=> info.hi >= 65536)

(* C20: when the payload length that the top-level object declares exceeds *)
(* the budget left in max_size after the object name and the 4-byte length *)
(* field, reading fails with CONFINEMENT before the object is created,     *)
(* before any item is decoded and before any memory has been allocated by  *)
(* the call.                                                              *)
PayloadOverBudget ==
    LET name == gwyfile_fread_string(stream, pos, Top.max_size)
        room == gwyfile_check_size(name.max_size, 4)
        size == fread(stream, name.pos, 4)
    IN  /\ Reading /\ Len(frames) = 1 /\ Top.kind = "object" /\ Top.phase = "enter"
        /\ name.ok /\ room.ok /\ size.count = 4
        /\ room.max_size < LeToU32(size.bytes)

C20_ConfinedBeforeAllocation ==
    [][PayloadOverBudget /\ ObjectFreadEnter
       => /\ ret'.st = "fail" /\ ret'.err = ErrorConfinement
          /\ objects' = objects /\ items' = items
          /\ fread_string_realloc(stream, pos, Top.max_size) = 0]_vars

C22_ArrayLength ==
    /\ \A i \in LiveItems :
          IF gwyfile_item_type_is_array(items[i].type)
          THEN items[i].array_length >= 1
          ELSE items[i].array_length = 0
    /\ CanCall =>
          /\ \A name \in ItemNames :
                /\ gwyfile_item_new_char_array(CurHeap, name, <<>>, 0).st = "abort"
                /\ gwyfile_item_new_object_array(CurHeap, name, <<>>, 0).st = "abort"
          /\ \A item \in LiveItems :
                /\ gwyfile_item_set_char_array(CurHeap, item, <<>>, 0).st = "abort"
                /\ gwyfile_item_set_object_array(CurHeap, item, <<>>, 0).st = "abort"
    /\ (stream \in EmptyArrayFiles /\ ReadIsOver) =>
          /\ ret.st # "ok"
          /\ ret.err = Error(GWYFILE_ERROR_DOMAIN_DATA, GWYFILE_ERROR_ARRAY_SIZE)

(* A character array item whose array has been replaced by a shorter one   *)
(* stands beside an object array item.                                    *)
C22_Witness ==
    /\ status = "run"
    /\ \E i, j \in LiveItems :
          /\ items[i].type = GWYFILE_ITEM_CHAR_ARRAY
          /\ items[i].array_length = 1 /\ items[i].data_size = 5
          /\ items[j].type = GWYFILE_ITEM_OBJECT_ARRAY
          /\ items[j].array_length = 2

(* The objects of a tree, and its items. *)
RECURSIVE ObjectsBelow(_, _, _)
ObjectsBelow(H, object, fuel) ==
    IF fuel = 0 THEN {object}
    ELSE {object} \cup UNION {ObjectsBelow(H, o, fuel - 1) :
             o \in UNION {Range(H.its[i].oa) : i \in Range(H.objs[object].items)}}
ItemsBelow(H, object) ==
    UNION {Range(H.objs[o].items) : o \in ObjectsBelow(H, object, Fuel)}

(* What the categories forbid: VALIDITY a type, a name or a string that is *)
(* not UTF-8 and a double that is infinite or not a number, WARNING a type *)
(* that is not an identifier and an empty name.                           *)
ObjectViolates(ob, flags) ==
    \/ HasFlag(flags, GWYFILE_CHECK_FLAG_VALIDITY) /\ ~gwyfile_is_valid_utf8(ob.name)
    \/ HasFlag(flags, GWYFILE_CHECK_FLAG_WARNING) /\ ~gwyfile_is_valid_identifier(ob.name)
ItemViolates(it, flags) ==
    \/ /\ HasFlag(flags, GWYFILE_CHECK_FLAG_WARNING)
       /\ it.name = <<>>
    \/ /\ HasFlag(flags, GWYFILE_CHECK_FLAG_VALIDITY)
       /\ \/ ~gwyfile_is_valid_utf8(it.name)
          \/ it.type = GWYFILE_ITEM_STRING /\ ~gwyfile_is_valid_utf8(it.v)
          \/ /\ it.type = GWYFILE_ITEM_STRING_ARRAY
             /\ \E k \in 1..Len(it.sa) : ~gwyfile_is_valid_utf8(it.sa[k])
          \/ /\ it.type \in {GWYFILE_ITEM_DOUBLE, GWYFILE_ITEM_DOUBLE_ARRAY}
             /\ \E k \in 1..(Len(it.v) \div 8) :
                   ~gwyfile_double_isnormal(SubSeq(it.v, 8 * k - 7, 8 * k))
HasViolation(H, object, flags) ==
    \/ \E o \in ObjectsBelow(H, object, Fuel) : ObjectViolates(H.objs[o], flags)
    \/ \E i \in ItemsBelow(H, object) : ItemViolates(H.its[i], flags)

(* C23: gwyfile_check_object() returns true if and only if the tree, with  *)
(* all its nested objects and the objects of its arrays, holds no          *)
(* violation of a category that the flags enable, so always when they      *)
(* enable none; and it returns the same whether errlist is NULL, an empty  *)
(* list or a list that holds errors of an earlier call.                    *)
C23_CheckObject ==
    info.mode = "checked" =>
        \A errlist \in ErrorLists :
            /\ info.out[errlist].ok = ~HasViolation(CurHeap, info.object, info.flags)
            /\ info.out[errlist].ok = info.out[NoErrorList].ok
            /\ (~HasFlag(info.flags, GWYFILE_CHECK_FLAG_VALIDITY)
                   /\ ~HasFlag(info.flags, GWYFILE_CHECK_FLAG_WARNING))
                => info.out[errlist].ok

(* A tree whose only violation is in a nested object has been checked with *)
(* a list that held an error, and refused.                                *)
C23_Witness ==
    /\ info.mode = "checked"
    /\ \E errlist \in ErrorLists :
          /\ errlist.errors # <<>>
          /\ ~info.out[errlist].ok
          /\ Len(info.out[errlist].errlist.errors) = Len(errlist.errors) + 1
    /\ ~ObjectViolates(objects[info.object], info.flags)
    /\ \A i \in Range(objects[info.object].items) :
          ~ItemViolates(items[i], info.flags)

FreesExactly(done, os, is) ==
    /\ done.st = "run"
    /\ \A o \in DOMAIN objects :
          done.objs[o] = IF o \in os THEN DeadObject ELSE objects[o]
    /\ \A i \in DOMAIN items :
          done.its[i] = IF i \in is THEN DeadItem ELSE items[i]

C25_FreeSubtree ==
    status = "run" =>
        /\ \A o \in LiveObjs :
              LET done == gwyfile_object_free(CurHeap, o, Fuel)
              IN  IF objects[o].owner # NULL THEN done.st = "abort"
                  ELSE FreesExactly(done, ObjectsBelow(CurHeap, o, Fuel),
                                    ItemsBelow(CurHeap, o))
        /\ \A i \in LiveItems :
              LET done == gwyfile_item_free(CurHeap, i, Fuel)
                  os == UNION {ObjectsBelow(CurHeap, o, Fuel) : o \in Range(items[i].oa)}
              IN  IF items[i].owner # NULL THEN done.st = "abort"
                  ELSE FreesExactly(done, os,
                           {i} \cup UNION {ItemsBelow(CurHeap, o) : o \in Range(items[i].oa)})

(* What a setter that gave item the data_size new has done to the sizes:   *)
(* every node above the item differs by new - old, no other node differs. *)
SizeChangeIsPropagated(done, item, new) ==
    LET delta == new - items[item].data_size
        chain == AboveItem(item)
    IN  /\ done.st = "run"
        /\ done.its[item].data_size = new
        /\ \A a \in chain : DataSize(done, a) = DataSize(CurHeap, a) + delta
        /\ \A o \in DOMAIN objects :
              [kind |-> "o", id |-> o] \notin chain =>
                  done.objs[o].data_size = objects[o].data_size
        /\ \A i \in DOMAIN items :
              (i # item /\ [kind |-> "i", id |-> i] \notin chain) =>
                  done.its[i].data_size = items[i].data_size

(* C26: gwyfile_item_set_string(), gwyfile_item_set_string_copy() and      *)
(* gwyfile_item_set_string_const(), called on an item with a value of      *)
(* another length, change the data_size of the item's owner and of every   *)
(* item and object that wraps it, up to the first node without an owner,   *)
(* by the difference of the sizes, be it positive or negative, and the     *)
(* data_size of no other node.                                             *)
C26_SizePropagation ==
    status = "run" =>
        \A item \in LiveItems, value \in StrInputs :
            items[item].type = GWYFILE_ITEM_STRING =>
                /\ SizeChangeIsPropagated(
                       gwyfile_item_set_string(CurHeap, item, value),
                       item, Len(value) + 1)
                /\ SizeChangeIsPropagated(
                       gwyfile_item_set_string_copy(CurHeap, item, value),
                       item, Len(value) + 1)
                /\ SizeChangeIsPropagated(
                       gwyfile_item_set_string_const(CurHeap, item, value),
                       item, Len(value) + 1)

(* A string item holding "hi" in an object that an object item or object   *)
(* array item wraps, itself in a root object: three nodes above the item,  *)
(* whose sizes a setter called with "" reduces by 2.                       *)
C26_Witness ==
    /\ status = "run"
    /\ \E item \in LiveItems :
          /\ items[item].type = GWYFILE_ITEM_STRING
          /\ items[item].v = <<104, 105>>
          /\ Cardinality(AboveItem(item)) = 3
          /\ \E o \in LiveObjs :
                /\ objects[o].owner = NULL
                /\ [kind |-> "o", id |-> o] \in AboveItem(item)
                /\ objects[o].data_size >= 17

(* C27: while an object is read no assertion of the reading functions      *)
(* fails: the items appended to an object never take more than the payload *)
(* it declared, so its loop ends with data_size equal to the declared      *)
(* size, and an element of an object array is never larger than what was   *)
(* left of max_size before it.                                             *)
C27_ItemsFitPayload ==
    /\ status = "run"
    /\ \A k \in 1..Len(frames) :
          (frames[k].kind = "object" /\ frames[k].phase = "items") =>
              /\ objects[frames[k].object].data_size <= frames[k].data_size
              /\ frames[k].data_size <= frames[k].max_size

(* The second element of an object array, read to the end of its loop: its *)
(* items take exactly the payload it declared.                             *)
C27_Witness ==
    /\ Reading /\ Len(frames) = 3
    /\ frames[2].kind = "item" /\ frames[2].phase = "array" /\ Len(frames[2].oa) = 1
    /\ Top.kind = "object" /\ Top.phase = "items"
    /\ Top.data_size > 0
    /\ objects[Top.object].data_size = Top.data_size

(* C28: gwyfile_fread_string() with max_size 0 fails with CONFINEMENT      *)
(* before it reads.  The byte that fgetc() gives in a pass is byte         *)
(* len + 1 of the string: the function succeeds in that pass exactly when  *)
(* the byte is nul and len + 1 is at most max_size and at most             *)
(* 0x80000000, and max_size is then less by len + 1; it fails with         *)
(* CONFINEMENT when the stream has ended or when max_size bytes were read  *)
(* without a nul, with LONG_STRING when 0x80000000 bytes were read without *)
(* a nul and max_size allows more, and goes on otherwise.                  *)
C28_FreadString ==
    [][/\ CallFreadString =>
            IF info.max_size = Big(0, 0)
            THEN ret'.st = "fail" /\ ret'.err = ErrorConfinement
            ELSE ret'.st = "reading"
       /\ FreadStringPass =>
            LET len == info.len
                max_size == info.max_size
                c == info'.c
                within == /\ BigLess(len, max_size)
                          /\ BigLess(len, Big(32768, 0))
            IN  /\ ret'.st = "ok" <=> (c = 0 /\ within)
                /\ ret'.st = "ok" =>
                      info'.max_size = BigMinus(max_size, BigSucc(len))
                /\ ret'.st = "fail" <=> (c = EOF \/ ~within)
                /\ ret'.st = "fail" =>
                      ret'.err = IF c = EOF \/ len = max_size
                                 THEN ErrorConfinement
                                 ELSE Error(GWYFILE_ERROR_DOMAIN_DATA,
                                            GWYFILE_ERROR_LONG_STRING)
                /\ ret'.st = "reading" => info'.len = BigSucc(len)]_vars

(* 0x80000000 characters were stored and another one arrived, with a       *)
(* max_size that is larger: LONG_STRING.                                   *)
C28_Witness ==
    /\ info.mode = "string"
    /\ info.len = Big(32768, 0) /\ BigLess(info.len, info.max_size)
    /\ ret.st = "fail"
    /\ ret.err = Error(GWYFILE_ERROR_DOMAIN_DATA, GWYFILE_ERROR_LONG_STRING)

(* C29: with an error sink that is NULL before the call, a reading or      *)
(* writing function that fails has set the sink, no function sets it a     *)
(* second time (the assertion of gwyfile_set_error() and                   *)
(* gwyfile_set_error_errno() holds), and while no function has failed and  *)
(* after success the sink is NULL.                                         *)
C29_ErrorSetOnce ==
    /\ status = "run"
    /\ ret.st \in {"fail", "failing"} => ret.err # NoError
    /\ ret.st \in {"idle", "reading", "ok"} => ret.err = NoError
    /\ info.mode = "wrote" =>
          /\ info.ok => info.err = NoError /\ Len(written) <= info.room
          /\ ~info.ok => info.err = ErrorErrno /\ Len(written) = info.room

(* The stream failed inside the value of an item, after the header and the *)
(* object's name and size went out: gwyfile_fwrite() returned false with   *)
(* the SYSTEM error in the sink.                                           *)
C29_Witness ==
    /\ status = "run"
    /\ info.mode = "wrote" /\ ~info.ok /\ info.err = ErrorErrno
    /\ info.room > 13
    /\ Len(written) = info.room

(* C30: in a tree whose sizes obey the size invariant an object that holds *)
(* an object too large to be written is too large itself, so               *)
(* gwyfile_object_fwrite() of the root fails with OBJECT_SIZE in its own   *)
(* size test, before any byte has gone to the stream, or no object of the  *)
(* tree fails that test.                                                   *)
C30_ObjectSizeAtRoot ==
    info.mode = "nested" =>
        /\ \A k \in 2..Len(info.chain) :
              ObjectSizeTooLarge(info.chain[k].data_size.hi,
                                 info.chain[k].data_size.lo, info.chain[k].name_len)
                  => ObjectSizeTooLarge(info.chain[k - 1].data_size.hi,
                                        info.chain[k - 1].data_size.lo,
                                        info.chain[k - 1].name_len)
        /\ ret.st = "fail" =>
              /\ ret.err = Error(GWYFILE_ERROR_DOMAIN_DATA, GWYFILE_ERROR_OBJECT_SIZE)
              /\ info.before = 0

(* The innermost of three objects is just too large (data_size 0xFFFFFFFB  *)
(* with a name of one character): the write of the outermost has failed    *)
(* with nothing written.                                                   *)
C30_Witness ==
    /\ info.mode = "nested" /\ ret.st = "fail" /\ info.before = 0
    /\ Len(info.chain) = 3
    /\ info.chain[3].data_size = Big(65535, 65531) /\ info.chain[3].name_len = 1
    /\ info.chain[1].data_size.hi = 65536

====
